---- MODULE Spec2Model ----
(***************************************************************************)
(* crai: the diff-to-findings pipeline.                                    *)
(*                                                                         *)
(* Spec models one run of the AI scoring step of run_interactive           *)
(* (src/main.rs): ScoringOrchestrator::score_all (src/ai/scoring.rs)       *)
(* driving the retry loop of one of the two provider backends              *)
(* (src/ai/claude.rs, src/ai/kiro.rs) over the chunks of a parsed diff,    *)
(* with the Ctrl+C handler running beside it.                              *)
(*                                                                         *)
(* ExtractSpec models KiroProvider::extract_json (src/ai/kiro.rs) applied  *)
(* to one output text; ParseSpec models DiffParser::parse_unified_diff     *)
(* (src/diff/parser.rs) applied to one diff text.                          *)
(*                                                                         *)
(* Indices are 1-based here (TLA+ sequences) and 0-based in the source;    *)
(* chunk identifiers keep the parser's numbering 0, 1, 2, ...              *)
(***************************************************************************)
EXTENDS Integers, Sequences, FiniteSets, TLC

\* ------------------------------------------------------------------ bounds
MaxFiles == 2          \* files in the diff
MaxTotal == 2          \* chunks in the diff, over all files
MaxConcurrent == 2     \* largest concurrent_requests tried
MaxRetries == 3        \* largest max_retries tried
MaxBody == 7           \* characters of the longest JSON object given to extract_json
MaxEvents == 3         \* events of the longest array the tool prints
MaxColumns == 4        \* tab-separated columns of the longest name-status line
MaxNotes == 1          \* notes added to one chunk
MaxLines == 4          \* lines of the longest diff text given to the parser

\* ------------------------------------------------- values the model draws
None == "None"

\* Option<T>: a sequence holding no element or one
NONE == <<>>
Some(x) == <<x>>

\* the score field of a tool output that deserializes, in tenths: 0.2, 0.3
\* and 1.2 (an f64 outside [0.0, 1.0])
Scores == {2, 3, 12}

\* the range the JSON schema gives for score, in tenths
ScoreMin == 0
ScoreMax == 10

\* results of ChunkFilter::filter_chunk that score_all can receive:
\* not filtered, or filtered with a heuristic reason
HeurResults == {None, "ImportOnly"}

Backends == {"claude", "kiro"}

\* what one invocation of the external tool can come back with
ClaudeStdout == {"not_array", "no_result", "no_structured", "wrong_shape", "valid"}
KiroStdout == {"no_json", "wrong_shape", "valid"}

SpawnFail == [spawned |-> FALSE, exit_ok |-> FALSE, stdout |-> None, score |-> 0]

ProcessOutputs(stdouts) ==
    { [spawned |-> TRUE, exit_ok |-> e, stdout |-> s, score |-> sc] :
        e \in BOOLEAN, s \in stdouts \ {"valid"}, sc \in {0} }
    \cup
    { [spawned |-> TRUE, exit_ok |-> e, stdout |-> "valid", score |-> sc] :
        e \in BOOLEAN, sc \in Scores }

Outcomes(b) ==
    {SpawnFail} \cup ProcessOutputs(IF b = "claude" THEN ClaudeStdout ELSE KiroStdout)

\* ------------------------------------------------------------------ helpers
RECURSIVE SumSeq(_)
SumSeq(s) == IF s = <<>> THEN 0 ELSE Head(s) + SumSeq(Tail(s))

RECURSIVE SeqsUpTo(_, _)
\* sequences over S of length 0..n
SeqsUpTo(S, n) ==
    IF n = 0 THEN {<<>>}
    ELSE LET shorter == SeqsUpTo(S, n - 1)
         IN shorter \cup { Append(s, x) : s \in {t \in shorter : Len(t) = n - 1}, x \in S }

Max(a, b) == IF a >= b THEN a ELSE b

\* the per-file chunk counts of the diffs tried
Shapes ==
    { s \in SeqsUpTo(0..MaxTotal, MaxFiles) : Len(s) >= 1 /\ SumSeq(s) <= MaxTotal }

\* chunk identifiers handed out before file f: the parser numbers chunks
\* 0, 1, 2, ... over the whole parse
IdBase(shape, f) == SumSeq(SubSeq(shape, 1, f - 1))

\* FileDiff values: path and chunks; a chunk carries its id, the result
\* filter_chunk gives for it and chunk.lines.len() (the chunk with id i has
\* i + 1 lines, so no two chunks of a diff are of the same length)
MakeFiles(shape, heur) ==
    [ f \in 1..Len(shape) |->
        [ path |-> <<"path", f>>,
          chunks |-> [ c \in 1..shape[f] |->
                        [ id |-> IdBase(shape, f) + c - 1,
                          heur |-> heur[IdBase(shape, f) + c - 1],
                          line_count |-> IdBase(shape, f) + c ] ] ] ]

VARIABLES
    files,                \* &[FileDiff] passed to score_all
    backend,              \* which AiProvider the orchestrator holds
    max_retries,          \* provider.max_retries
    concurrent_requests,  \* orchestrator.concurrent_requests
    pc,                   \* "start", "scoring", "returned": where score_all is
    chunks_to_score,      \* what the stream iterator has not yet handed out
    in_progress,          \* the futures buffer_unordered holds
    all_scores,           \* Vec<ChunkScore>
    completed,            \* completed counter of score_all
    total,                \* total = chunks_to_score.len()
    updates,              \* the ScoringUpdate values passed to the callback
    displayed,            \* callbacks that got past the cancelled check
    cancelled,            \* the AtomicBool of run_interactive
    observed,             \* a callback has loaded cancelled = true
    run_state,            \* what run_interactive did with the result
    issued,               \* history: per chunk id, the score_controversiality
                          \* calls issued for it
    last_call,            \* history: the call that returned last (the one the last
                          \* element of all_scores is for): the tool invocations
                          \* it made and what the last of them came back with
    extraction,           \* one extract_json call: its text and its result
    parse,                \* one parse_unified_diff call: its text and its result
    stats,                \* the FilterStats of score_all
    ai_config,            \* config.ai: the provider kind and custom_cli_path
    filtering,            \* one filter_chunk call: what it is given and its result
    reply,                \* one tool output read by execute_with_schema: the events
                          \* and what is made of them
    name_status,          \* one parse_name_status_line call: its line and its result
    app,                  \* the App of the terminal interface: its view, should_quit
    session               \* a ReviewSession: its scoring result and chunk states

vars == << files, backend, max_retries, concurrent_requests, pc, chunks_to_score,
           in_progress, all_scores, completed, total, updates, displayed,
           cancelled, observed, run_state, issued, last_call, extraction, parse,
           stats, ai_config, filtering, reply, name_status, app, session >>

\* what a scoring run leaves alone
\* the state of the operations specified after the scoring run
others == << reply, name_status, app, session >>

elsewhere == << extraction, parse, filtering, others >>

config == << files, backend, max_retries, concurrent_requests, ai_config >>

\* ------------------------------------------------------ provider backends
\* What the future of one score_controversiality call does when the tool
\* invocation it awaits comes back with `out`, having failed `attempt` times
\* before: it returns (Ok or Err) or it sleeps and will invoke the tool again.
Return(ok, score, err, via) ==
    [kind |-> "return", ok |-> ok, score |-> score, err |-> err, via |-> via, attempt |-> 0,
     delay_ms |-> 0]

BaseDelayMs == 500     \* the base of the backoff delay, in milliseconds

\* Sleep with the delay computed before attempt was incremented
SleepBeforeIncrement(attempt) ==
    [kind |-> "sleep", ok |-> FALSE, score |-> 0, err |-> None, via |-> None, attempt |-> attempt,
     delay_ms |-> BaseDelayMs * (attempt - 1)]

\* tokio::time::sleep(Duration::from_millis(500 * attempt)), attempt being
\* the number of failed invocations so far
Sleep(attempt) ==
    [kind |-> "sleep", ok |-> FALSE, score |-> 0, err |-> None, via |-> None, attempt |-> attempt,
     delay_ms |-> BaseDelayMs * attempt]

\* ClaudeStep with the exhaustion test off by one (attempt > max_retries)
ClaudeStepOneMore(attempt, retries, out) ==
    IF ~out.spawned THEN Return(FALSE, 0, "CliExecution", "spawn_fail")
    ELSE IF out.exit_ok THEN
        IF out.stdout = "valid" THEN Return(TRUE, out.score, None, "valid")
        ELSE Return(FALSE, 0, "ResponseParse", out.stdout)
    ELSE IF attempt + 1 > retries THEN Return(FALSE, 0, "CliExecution", "nonzero_exit")
    ELSE Sleep(attempt + 1)

\* ClaudeProvider::execute_with_schema, one turn of its loop
ClaudeStep(attempt, retries, out) ==
    IF ~out.spawned THEN Return(FALSE, 0, "CliExecution", "spawn_fail")
    ELSE IF out.exit_ok THEN
        IF out.stdout = "valid" THEN Return(TRUE, out.score, None, "valid")
        ELSE Return(FALSE, 0, "ResponseParse", out.stdout)
    ELSE IF attempt + 1 >= retries THEN Return(FALSE, 0, "CliExecution", "nonzero_exit")
    ELSE Sleep(attempt + 1)

\* KiroProvider::execute_json_prompt, one turn of its loop; extract_json
\* finds an object in "wrong_shape" and "valid" output and none in "no_json"
KiroStep(attempt, retries, out) ==
    IF ~out.spawned THEN Return(FALSE, 0, "CliExecution", "spawn_fail")
    ELSE IF out.stdout = "valid" THEN Return(TRUE, out.score, None, "valid")
    ELSE IF attempt + 1 >= retries THEN Return(FALSE, 0, "ResponseParse", out.stdout)
    ELSE Sleep(attempt + 1)

ProviderStep(b, attempt, retries, out) ==
    IF b = "claude" THEN ClaudeStep(attempt, retries, out)
    ELSE KiroStep(attempt, retries, out)

\* ------------------------------------------------------------ filter engine
Threshold == 3     \* controversiality_threshold 0.3, in tenths

FilterChunk(chunk) ==
    IF chunk.heur = None THEN [is_filtered |-> FALSE, reason |-> None]
    ELSE [is_filtered |-> TRUE, reason |-> chunk.heur]

FilterByScore(score) ==
    IF score < Threshold THEN [is_filtered |-> TRUE, reason |-> "BelowThreshold"]
    ELSE [is_filtered |-> FALSE, reason |-> None]

\* ------------------------------------------------------------ orchestrator
RECURSIVE CoordsFrom(_, _)
\* (file_idx, chunk_idx) of every chunk, in the order of the nested loops
CoordsFrom(fs, f) ==
    IF f > Len(fs) THEN <<>>
    ELSE [c \in 1..Len(fs[f].chunks) |-> <<f, c>>] \o CoordsFrom(fs, f + 1)

ChunkAt(fs, p) == fs[p[1]].chunks[p[2]]

\* first pass, the is_filtered branch: the ChunkScore of a filtered chunk
FilteredScore(fs, p) ==
    [file_index |-> p[1], chunk_index |-> p[2], chunk_id |-> ChunkAt(fs, p).id,
     response |-> NONE, filter_result |-> Some(FilterChunk(ChunkAt(fs, p)))]

RECURSIVE MapFiltered(_, _)
MapFiltered(fs, ps) ==
    IF ps = <<>> THEN <<>>
    ELSE <<FilteredScore(fs, Head(ps))>> \o MapFiltered(fs, Tail(ps))

\* a first pass that skips a filtered chunk without recording it
HeuristicScoresSkipped(fs) == <<>>

\* first pass: all_scores after it
HeuristicScores(fs) ==
    MapFiltered(fs, SelectSeq(CoordsFrom(fs, 1),
                              LAMBDA p : FilterChunk(ChunkAt(fs, p)).is_filtered))

\* HeuristicQueue without the is_filtered test: every chunk is queued
HeuristicQueueAll(fs) == CoordsFrom(fs, 1)

\* first pass: chunks_to_score after it
HeuristicQueue(fs) ==
    SelectSeq(CoordsFrom(fs, 1), LAMBDA p : ~FilterChunk(ChunkAt(fs, p)).is_filtered)

\* the future the stream's map closure builds for one queued chunk; prompt
\* is the chunk whose diff text the provider call carries
NewTask(fs, p) ==
    [file_idx |-> p[1], chunk_idx |-> p[2], chunk_id |-> ChunkAt(fs, p).id,
     file_path |-> fs[p[1]].path, prompt |-> ChunkAt(fs, p).id,
     attempt |-> 0, st |-> "running", invocations |-> 1, delay_ms |-> 0]

RECURSIVE FillUnbounded(_, _, _, _)
\* Fill without the limit: every queued future is started at once
FillUnbounded(fs, queue, inprog, limit) ==
    IF queue # <<>>
    THEN FillUnbounded(fs, Tail(queue), inprog \cup {NewTask(fs, Head(queue))}, limit)
    ELSE [queue |-> queue, inprog |-> inprog]

RECURSIVE Fill(_, _, _, _)
\* buffer_unordered's poll: take futures from the stream while fewer than
\* the limit are held
Fill(fs, queue, inprog, limit) ==
    IF queue # <<>> /\ Cardinality(inprog) < limit
    THEN Fill(fs, Tail(queue), inprog \cup {NewTask(fs, Head(queue))}, limit)
    ELSE [queue |-> queue, inprog |-> inprog]

\* TaskResult with the chunk index taken for the chunk id
TaskResultIdFromIndex(t, step) ==
    [file_idx |-> t.file_idx, chunk_idx |-> t.chunk_idx, chunk_id |-> t.chunk_idx,
     file_path |-> t.file_path,
     response |-> IF step.ok
                    THEN [ok |-> TRUE, score |-> step.score, about |-> t.prompt]
                    ELSE [ok |-> FALSE, score |-> 0, about |-> t.prompt]]

\* the tuple a finished future yields
TaskResult(t, step) ==
    [file_idx |-> t.file_idx, chunk_idx |-> t.chunk_idx, chunk_id |-> t.chunk_id,
     file_path |-> t.file_path,
     response |-> IF step.ok
                    THEN [ok |-> TRUE, score |-> step.score, about |-> t.prompt]
                    ELSE [ok |-> FALSE, score |-> 0, about |-> t.prompt]]

\* FilterStats::default()
NoStats == [total_chunks |-> 0, total_lines |-> 0, filtered_chunks |-> 0, filtered_lines |-> 0]

\* FilterStats::add_filtered
AddFiltered(st, lines) ==
    [st EXCEPT !.filtered_chunks = @ + 1, !.filtered_lines = @ + lines]

RECURSIVE FirstPassStatsFrom(_, _, _)
\* the stats after the first pass has gone through the chunks at ps
FirstPassStatsFrom(fs, ps, st) ==
    IF ps = <<>> THEN st
    ELSE LET chunk == ChunkAt(fs, Head(ps))
             counted == [st EXCEPT !.total_chunks = @ + 1,
                                   !.total_lines = @ + chunk.line_count]
         IN FirstPassStatsFrom(fs, Tail(ps),
                IF FilterChunk(chunk).is_filtered
                THEN AddFiltered(counted, chunk.line_count) ELSE counted)

\* first pass, had it counted a chunk when queueing it only
FirstPassStatsQueuedOnly(fs) ==
    FirstPassStatsFrom(fs, HeuristicQueue(fs), NoStats)

\* first pass: stats after it
FirstPassStats(fs) == FirstPassStatsFrom(fs, CoordsFrom(fs, 1), NoStats)

\* loop body, Ok arm: what it does to stats
LoopStats(st, fs, r) ==
    IF r.response.ok /\ FilterByScore(r.response.score).is_filtered
    THEN AddFiltered(st, ChunkAt(fs, <<r.file_idx, r.chunk_idx>>).line_count)
    ELSE st

\* ChunkScore::is_filtered
IsFiltered(s) == s.filter_result # NONE /\ s.filter_result[1].is_filtered

\* ScoringOrchestrator::reviewable_chunks: the positions it keeps
ReviewableChunks(scores) == SelectSeq(scores, LAMBDA sc : ~IsFiltered(sc))

\* ScoringResult::reviewable_count
ReviewableCount(scores) == Cardinality({ i \in 1..Len(scores) : ~IsFiltered(scores[i]) })

\* the recount, had it taken every chunk without a response for filtered
RecountUnscored(st, scores) ==
    [st EXCEPT !.filtered_chunks =
        Cardinality({ i \in 1..Len(scores) : scores[i].response = NONE })]

\* the recount of filtered_chunks from all_scores before score_all returns
RecountFiltered(st, scores) ==
    [st EXCEPT !.filtered_chunks =
        Cardinality({ i \in 1..Len(scores) : IsFiltered(scores[i]) })]

\* OkArm storing the FilterResult of a retained chunk too
OkArmKeepsFilterResult(r) ==
    LET fr == FilterByScore(r.response.score) IN
    [finding |-> Some([file_path |-> r.file_path, file_index |-> r.file_idx,
                       chunk_index |-> r.chunk_idx, score |-> r.response.score,
                       is_filtered |-> fr.is_filtered, about |-> r.response.about]),
     score |-> [file_index |-> r.file_idx, chunk_index |-> r.chunk_idx,
                chunk_id |-> r.chunk_id,
                response |-> Some([score |-> r.response.score, about |-> r.response.about]),
                filter_result |-> Some(fr)]]

\* loop body, Ok arm
OkArm(r) ==
    LET fr == FilterByScore(r.response.score) IN
    [finding |-> Some([file_path |-> r.file_path, file_index |-> r.file_idx,
                       chunk_index |-> r.chunk_idx, score |-> r.response.score,
                       is_filtered |-> fr.is_filtered, about |-> r.response.about]),
     score |-> [file_index |-> r.file_idx, chunk_index |-> r.chunk_idx,
                chunk_id |-> r.chunk_id,
                response |-> Some([score |-> r.response.score, about |-> r.response.about]),
                filter_result |-> IF fr.is_filtered THEN Some(fr) ELSE NONE]]

\* ErrArm recording the failed chunk as filtered below the threshold
ErrArmFiltered(r) ==
    [finding |-> NONE,
     score |-> [file_index |-> r.file_idx, chunk_index |-> r.chunk_idx,
                chunk_id |-> r.chunk_id, response |-> NONE,
                filter_result |-> Some(FilterByScore(0))]]

\* loop body, Err arm
ErrArm(r) ==
    [finding |-> NONE,
     score |-> [file_index |-> r.file_idx, chunk_index |-> r.chunk_idx,
                chunk_id |-> r.chunk_id, response |-> NONE, filter_result |-> NONE]]

LoopBody(r) == IF r.response.ok THEN OkArm(r) ELSE ErrArm(r)

\* the callback's argument, had it carried the count of the calls still to come
ProgressUpdateRemaining(done, all, body) ==
    [completed |-> all - done, total |-> all, finding |-> body.finding]

\* the ScoringUpdate handed to progress_callback
ProgressUpdate(done, all, body) ==
    [completed |-> done, total |-> all, finding |-> body.finding]

\* Push that keeps the scores in diff order
PushInDiffOrder(scores, body) ==
    SelectSeq(scores, LAMBDA x : x.chunk_id < body.score.chunk_id)
        \o << body.score >>
        \o SelectSeq(scores, LAMBDA x : x.chunk_id > body.score.chunk_id)

\* all_scores.push(chunk_score)
Push(scores, body) == Append(scores, body.score)

ChunkIds(fs) == { ChunkAt(fs, CoordsFrom(fs, 1)[i]).id : i \in 1..Len(CoordsFrom(fs, 1)) }

NoExtraction == [pre |-> <<>>, body |-> <<>>, post |-> <<>>, called |-> FALSE, result |-> NONE]

NoParse == [text |-> <<>>, called |-> FALSE, files |-> <<>>, errors |-> <<>>]

NoCall == [invocations |-> 0, via |-> None, exit_ok |-> FALSE]

\* the AiConfig a provider of the given kind is made from
ConfigOf(b) ==
    [provider |-> IF b = "claude" THEN "Claude" ELSE "Kiro", custom_cli_path |-> NONE]

NoFiltering == [matches |-> {}, enabled |-> {}, called |-> FALSE,
                result |-> [is_filtered |-> FALSE, reason |-> None], queued |-> FALSE]

NoReply == [events |-> <<>>, called |-> FALSE, result |-> [ok |-> FALSE, score |-> 0, via |-> None]]

\* none of the operations specified after the scoring run has been given anything
NoNameStatus == [line |-> <<>>, called |-> FALSE, result |-> NONE]

\* App::new: the Summary view, nothing handled yet; no event loop running
NewApp == [view |-> "Summary", tree_focused |-> FALSE, sort_mode |-> "ByScore",
           should_quit |-> FALSE, last_key |-> NONE]

NoApp == [NewApp EXCEPT !.view = "none"]

NoSession == [files |-> 0, diff |-> << >>, scoring_result |-> NONE, chunk_states |-> << >>]

RestIdle ==
    /\ reply = NoReply
    /\ name_status = NoNameStatus
    /\ app = NoApp
    /\ session = NoSession

\* ------------------------------------------------------------------- Init
Init ==
    /\ \E shape \in Shapes :
         \E heur \in [0..(SumSeq(shape) - 1) -> HeurResults] :
            files = MakeFiles(shape, heur)
    /\ backend \in Backends
    /\ max_retries \in 0..MaxRetries
    /\ concurrent_requests \in 0..MaxConcurrent
    /\ pc = "start"
    /\ chunks_to_score = <<>>
    /\ in_progress = {}
    /\ all_scores = <<>>
    /\ completed = 0
    /\ total = 0
    /\ updates = <<>>
    /\ displayed = 0
    /\ cancelled = FALSE
    /\ observed = FALSE
    /\ run_state = "scoring"
    /\ issued = [i \in ChunkIds(files) |-> 0]
    /\ last_call = NoCall
    /\ extraction = NoExtraction
    /\ parse = NoParse
    /\ stats = NoStats
    /\ ai_config = ConfigOf(backend)
    /\ filtering = NoFiltering
    /\ RestIdle

\* --------------------------------------------------------------- actions
\* one more call is on record for every future in `started`
Issued(log, started) ==
    [i \in DOMAIN log |-> log[i] + Cardinality({t \in started : t.prompt = i})]

\* run_interactive after score_all has returned (ctrlc_handler.abort(), the
\* cancelled check, app.set_scoring_result)
AfterScoring(c) == IF c THEN "cancelled" ELSE "scored"

\* score_all from its entry to its first suspension: the heuristic pass, the
\* stream and the first poll of it; with nothing queued it returns at once
Begin ==
    /\ pc = "start"
    /\ LET queue == HeuristicQueue(files)
           filled == Fill(files, queue, {}, concurrent_requests)
       IN /\ all_scores' = HeuristicScores(files)
          /\ total' = Len(queue)
          /\ chunks_to_score' = filled.queue
          /\ in_progress' = filled.inprog
          /\ issued' = Issued(issued, filled.inprog)
          /\ IF queue = <<>>
             THEN /\ pc' = "returned"
                  /\ run_state' = AfterScoring(cancelled)
                  /\ stats' = RecountFiltered(FirstPassStats(files), HeuristicScores(files))
             ELSE /\ pc' = "scoring"
                  /\ stats' = FirstPassStats(files)
                  /\ UNCHANGED run_state
    /\ UNCHANGED << config, elsewhere, completed, updates, displayed, cancelled, observed, last_call >>

\* the tool invocation of future t comes back and the future goes to its
\* backoff sleep
InvocationRetriedOf(t, out) ==
    /\ pc = "scoring"
    /\ t \in in_progress /\ t.st = "running"
    /\ LET step == ProviderStep(backend, t.attempt, max_retries, out) IN
       /\ step.kind = "sleep"
       /\ in_progress' = (in_progress \ {t})
                           \cup {[t EXCEPT !.attempt = step.attempt, !.st = "sleeping",
                                           !.delay_ms = step.delay_ms]}
    /\ UNCHANGED << config, elsewhere, pc, chunks_to_score, all_scores, completed, total, updates,
                    displayed, cancelled, observed, run_state, issued, last_call, stats >>

\* the backoff sleep of future t ends and it invokes the tool again
BackoffElapsesOf(t) ==
    /\ pc = "scoring"
    /\ t \in in_progress /\ t.st = "sleeping"
    /\ in_progress' = (in_progress \ {t})
                        \cup {[t EXCEPT !.st = "running", !.invocations = @ + 1]}
    /\ UNCHANGED << config, elsewhere, pc, chunks_to_score, all_scores, completed, total, updates,
                    displayed, cancelled, observed, run_state, issued, last_call, stats >>

\* the subprocess of future t is one that never completes
SubprocessHangsOf(t) ==
    /\ pc = "scoring"
    /\ t \in in_progress /\ t.st = "running"
    /\ in_progress' = (in_progress \ {t}) \cup {[t EXCEPT !.st = "hung"]}
    /\ UNCHANGED << config, elsewhere, pc, chunks_to_score, all_scores, completed, total, updates,
                    displayed, cancelled, observed, run_state, issued, last_call, stats >>

\* the tool invocation of future t comes back and the future returns: the
\* stream yields its tuple, the loop body runs, the callback is called, and
\* the next poll of the stream refills the buffer; when the stream is
\* drained score_all returns
CallCompletesOf(t, out) ==
    /\ pc = "scoring"
    /\ t \in in_progress /\ t.st = "running"
    /\ LET step == ProviderStep(backend, t.attempt, max_retries, out)
           body == LoopBody(TaskResult(t, step))
           filled == Fill(files, chunks_to_score, in_progress \ {t}, concurrent_requests)
       IN /\ step.kind = "return"
          /\ completed' = completed + 1
          /\ all_scores' = Push(all_scores, body)
          /\ updates' = Append(updates, ProgressUpdate(completed + 1, total, body))
          /\ observed' = (observed \/ cancelled)
          /\ displayed' = IF cancelled THEN displayed ELSE displayed + 1
          /\ chunks_to_score' = filled.queue
          /\ in_progress' = filled.inprog
          /\ issued' = Issued(issued, filled.inprog \ in_progress)
          /\ last_call' = [invocations |-> t.invocations, via |-> step.via,
                           exit_ok |-> out.exit_ok]
          /\ IF filled.queue = <<>> /\ filled.inprog = {}
             THEN /\ pc' = "returned"
                  /\ run_state' = AfterScoring(cancelled)
                  /\ stats' = RecountFiltered(LoopStats(stats, files, TaskResult(t, step)),
                                              Push(all_scores, body))
             ELSE /\ stats' = LoopStats(stats, files, TaskResult(t, step))
                  /\ UNCHANGED << pc, run_state >>
    /\ UNCHANGED << config, elsewhere, total, cancelled >>

\* the Ctrl+C handler task: the interrupt signal arrives while score_all runs
CtrlC ==
    /\ pc # "returned"
    /\ ~cancelled
    /\ cancelled' = TRUE
    /\ UNCHANGED << config, elsewhere, pc, chunks_to_score, in_progress, all_scores, completed,
                    total, updates, displayed, observed, run_state, issued, last_call, stats >>

InvocationRetried ==
    \E t \in in_progress : \E out \in Outcomes(backend) : InvocationRetriedOf(t, out)

BackoffElapses == \E t \in in_progress : BackoffElapsesOf(t)

SubprocessHangs == \E t \in in_progress : SubprocessHangsOf(t)

CallCompletes ==
    \E t \in in_progress : \E out \in Outcomes(backend) : CallCompletesOf(t, out)

Next ==
    \/ Begin
    \/ InvocationRetried
    \/ BackoffElapses
    \/ SubprocessHangs
    \/ CallCompletes
    \/ CtrlC

Spec == Init /\ [][Next]_vars

\* the specification with the scheduling the runtime gives: score_all is
\* polled, a running subprocess that is not a hanging one comes back, and a
\* backoff timer fires
FairSpec ==
    /\ Spec
    /\ WF_vars(Begin)
    /\ WF_vars(CallCompletes)
    /\ WF_vars(InvocationRetried)
    /\ WF_vars(BackoffElapses)

\* ------------------------------------------------ extract_json (kiro.rs)
\* A text is a sequence of characters. "a" stands for a letter, "1" for a
\* digit, ESC and BEL for the bytes 0x1b and 0x07.
LBrace == "{"
RBrace == "}"
Quote == "\""
Backslash == "\\"
ESC == "ESC"
BEL == "BEL"

\* [a-zA-Z] and [0-9;] of the regex of strip_ansi_codes
IsLetter(c) == c \in {"a", "m"}
IsParam(c) == c \in {"1", ";"}

RECURSIVE SkipParams(_, _)
\* the greedy [0-9;]*: the first position from j on that holds no parameter
SkipParams(t, j) ==
    IF j <= Len(t) /\ IsParam(t[j]) THEN SkipParams(t, j + 1) ELSE j

RECURSIVE FindFrom(_, _, _)
\* the first position from j on that holds c, or 0
FindFrom(t, j, c) ==
    IF j > Len(t) THEN 0 ELSE IF t[j] = c THEN j ELSE FindFrom(t, j + 1, c)

\* the last position of the match of the regex that starts at i, or 0:
\* ESC [ [0-9;]* [a-zA-Z]  or  ESC ] [^BEL]* BEL
AnsiMatchEnd(t, i) ==
    IF i + 1 > Len(t) \/ t[i] # ESC THEN 0
    ELSE IF t[i + 1] = "["
         THEN LET j == SkipParams(t, i + 2)
              IN IF j <= Len(t) /\ IsLetter(t[j]) THEN j ELSE 0
    ELSE IF t[i + 1] = "]" THEN FindFrom(t, i + 2, BEL)
    ELSE 0

RECURSIVE StripFrom(_, _)
\* replace_all(text, ""): the matches are cut out from left to right
StripFrom(t, i) ==
    IF i > Len(t) THEN <<>>
    ELSE IF AnsiMatchEnd(t, i) # 0 THEN StripFrom(t, AnsiMatchEnd(t, i) + 1)
    ELSE <<t[i]>> \o StripFrom(t, i + 1)

RECURSIVE LastLetter(_, _)
\* the last position from j on that holds a letter, or 0
LastLetter(t, j) ==
    IF j > Len(t) THEN 0
    ELSE LET later == LastLetter(t, j + 1)
         IN IF later # 0 THEN later ELSE IF IsLetter(t[j]) THEN j ELSE 0

RECURSIVE StripGreedyFrom(_, _)
\* the stripping a regex ESC [ .* [a-zA-Z] would do: a sequence runs to the
\* last letter of the text
StripGreedyFrom(t, i) ==
    IF i > Len(t) THEN <<>>
    ELSE IF i + 1 <= Len(t) /\ t[i] = ESC /\ t[i + 1] = "[" /\ LastLetter(t, i + 2) # 0
         THEN StripGreedyFrom(t, LastLetter(t, i + 2) + 1)
    ELSE <<t[i]>> \o StripGreedyFrom(t, i + 1)

StripAnsiGreedy(text) == StripGreedyFrom(text, 1)

\* KiroProvider::strip_ansi_codes
StripAnsiCodes(text) == StripFrom(text, 1)

\* the scanner's variables before the first character
ScanStart == [start |-> NONE, depth |-> 0, in_string |-> FALSE, escape_next |-> FALSE]

RECURSIVE ScanNoEscape(_, _, _)
\* ScanFrom without the backslash arm: an escaped quote ends the string
ScanNoEscape(clean, i, st) ==
    IF i > Len(clean) THEN NONE
    ELSE LET c == clean[i] IN
         IF c = Quote THEN ScanNoEscape(clean, i + 1, [st EXCEPT !.in_string = ~@])
         ELSE IF c = LBrace /\ ~st.in_string
              THEN ScanNoEscape(clean, i + 1,
                        [st EXCEPT !.start = IF st.depth = 0 THEN Some(i) ELSE @,
                                   !.depth = @ + 1])
         ELSE IF c = RBrace /\ ~st.in_string
              THEN IF st.depth - 1 = 0 /\ st.start # NONE
                   THEN Some(SubSeq(clean, st.start[1], i))
                   ELSE ScanNoEscape(clean, i + 1, [st EXCEPT !.depth = @ - 1])
         ELSE ScanNoEscape(clean, i + 1, st)

RECURSIVE ScanFrom(_, _, _)
\* the for loop of extract_json from character i on, its variables being st
ScanFrom(clean, i, st) ==
    IF i > Len(clean) THEN NONE
    ELSE LET c == clean[i] IN
         IF st.escape_next THEN ScanFrom(clean, i + 1, [st EXCEPT !.escape_next = FALSE])
         ELSE IF c = Backslash /\ st.in_string
              THEN ScanFrom(clean, i + 1, [st EXCEPT !.escape_next = TRUE])
         ELSE IF c = Quote THEN ScanFrom(clean, i + 1, [st EXCEPT !.in_string = ~@])
         ELSE IF c = LBrace /\ ~st.in_string
              THEN ScanFrom(clean, i + 1,
                        [st EXCEPT !.start = IF st.depth = 0 THEN Some(i) ELSE @,
                                   !.depth = @ + 1])
         ELSE IF c = RBrace /\ ~st.in_string
              THEN IF st.depth - 1 = 0 /\ st.start # NONE
                   THEN Some(SubSeq(clean, st.start[1], i))
                   ELSE ScanFrom(clean, i + 1, [st EXCEPT !.depth = @ - 1])
         ELSE ScanFrom(clean, i + 1, st)

\* KiroProvider::extract_json
ExtractJson(text) == ScanFrom(StripAnsiCodes(text), 1, ScanStart)

\* --- the texts given to extract_json
\* the contents of a JSON string, n characters long: letters, braces and
\* the escapes \" \\ \a
RECURSIVE StrContents(_)
StrContents(n) ==
    IF n = 0 THEN {<<>>}
    ELSE { <<c>> \o r : c \in {"a", LBrace, RBrace}, r \in StrContents(n - 1) }
         \cup (IF n < 2 THEN {}
               ELSE { <<Backslash, c>> \o r :
                        c \in {Quote, Backslash, "a"}, r \in StrContents(n - 2) })

RECURSIVE ObjectsOfLen(_)
RECURSIVE ItemSeqs(_)
\* what stands between the braces of an object, n characters long: letters
\* (for all that is neither string nor brace), strings and objects
ItemSeqs(n) ==
    IF n = 0 THEN {<<>>}
    ELSE UNION { { it \o r :
                     it \in (IF k = 1 THEN {<<"a">>}
                             ELSE { <<Quote>> \o c \o <<Quote>> : c \in StrContents(k - 2) }
                                  \cup ObjectsOfLen(k)),
                     r \in ItemSeqs(n - k) } : k \in 1..n }

\* the well-formed objects of n characters
ObjectsOfLen(n) ==
    IF n < 2 THEN {}
    ELSE { <<LBrace>> \o inner \o <<RBrace>> : inner \in ItemSeqs(n - 2) }

WellFormedObjects == UNION { ObjectsOfLen(n) : n \in 2..MaxBody }

\* texts that hold no complete object
Fragments == { <<>>, <<"a">>, <<LBrace>>, <<LBrace, Quote, RBrace>>, <<LBrace, "a">> }

CsiCodes == { <<ESC, "[", "1", "m">>, <<ESC, "[", "m">>, <<ESC, "[", "1", ";", "1", "m">> }

\* what can stand around the object: nothing, prose, a quote, a closing
\* brace, terminal escape sequences
Decorations ==
    { <<>>, <<"a">>, <<Quote>>, <<RBrace>>, <<ESC, "]", "a", BEL>>, <<ESC, "[", "1">> }
    \cup CsiCodes

TextOf(x) == x.pre \o x.body \o x.post

ExtractInit ==
    /\ extraction \in [pre : Decorations, body : WellFormedObjects \cup Fragments,
                       post : Decorations, called : {FALSE}, result : {NONE}]
    /\ parse = NoParse
    /\ files = <<>>
    /\ backend = "kiro"
    /\ max_retries = 0
    /\ concurrent_requests = 0
    /\ pc = "idle"
    /\ chunks_to_score = <<>>
    /\ in_progress = {}
    /\ all_scores = <<>>
    /\ completed = 0
    /\ total = 0
    /\ updates = <<>>
    /\ displayed = 0
    /\ cancelled = FALSE
    /\ observed = FALSE
    /\ run_state = "idle"
    /\ issued = << >>
    /\ last_call = NoCall
    /\ stats = NoStats
    /\ ai_config = ConfigOf("kiro")
    /\ filtering = NoFiltering
    /\ RestIdle

\* what extract_json and the parser leave alone
scoring == << config, pc, chunks_to_score, in_progress, all_scores, completed, total,
              updates, displayed, cancelled, observed, run_state, issued, last_call, stats >>

\* execute_json_prompt calls extract_json on the stdout of the tool
CallExtractJson ==
    /\ ~extraction.called
    /\ extraction' = [extraction EXCEPT !.called = TRUE,
                                        !.result = ExtractJson(TextOf(extraction))]
    /\ UNCHANGED << scoring, parse, filtering, others >>

ExtractNext == CallExtractJson

ExtractSpec == ExtractInit /\ [][ExtractNext]_vars

\* ------------------------------------------- parse_unified_diff (parser.rs)
\* A line is a sequence of characters; the fixed words "diff --git", "@@",
\* "/dev/null", "a/", "b/", "ctx" and "unknown" stand for their characters.
DiffGit == "diff --git"
AtAt == "@@"
Space == " "
DevNull == "/dev/null"
Unknown == <<"unknown">>

Digits == {"1", "2", "3", "7", "9"}

DigitVal(c) == CASE c = "1" -> 1 [] c = "2" -> 2 [] c = "3" -> 3 [] c = "7" -> 7 [] c = "9" -> 9

\* str::starts_with and the rest after a prefix of n characters
StartsWith(line, prefix) ==
    Len(line) >= Len(prefix) /\ SubSeq(line, 1, Len(prefix)) = prefix

Drop(line, n) == SubSeq(line, n + 1, Len(line))

RECURSIVE FindSeq(_, _, _)
\* str::find: the first position from i on where pat stands, or 0
FindSeq(t, pat, i) ==
    IF i + Len(pat) - 1 > Len(t) THEN 0
    ELSE IF SubSeq(t, i, i + Len(pat) - 1) = pat THEN i
    ELSE FindSeq(t, pat, i + 1)

RECURSIVE Trim(_)
\* str::trim
Trim(t) ==
    IF t = <<>> THEN t
    ELSE IF t[1] = Space THEN Trim(Drop(t, 1))
    ELSE IF t[Len(t)] = Space THEN Trim(SubSeq(t, 1, Len(t) - 1))
    ELSE t

RECURSIVE DecimalValue(_)
DecimalValue(t) ==
    IF t = <<>> THEN 0 ELSE 10 * DecimalValue(SubSeq(t, 1, Len(t) - 1)) + DigitVal(t[Len(t)])

\* str::parse::<u32>: digits, after an optional plus sign
ParseU32(t) ==
    LET digits == IF t # <<>> /\ t[1] = "+" THEN Drop(t, 1) ELSE t
    IN IF digits # <<>> /\ \A i \in 1..Len(digits) : digits[i] \in Digits
       THEN Some(DecimalValue(digits))
       ELSE NONE

\* parse_range giving a bare start the count 0
ParseRangeBareCountZero(t) ==
    LET comma == FindSeq(t, <<",">>, 1)
        start == ParseU32(IF comma = 0 THEN t ELSE SubSeq(t, 1, comma - 1))
        count == IF comma = 0 THEN Some(0) ELSE ParseU32(Drop(t, comma))
    IN IF start = NONE \/ count = NONE THEN NONE
       ELSE Some([start |-> start[1], count |-> count[1]])

\* parse_range
ParseRange(t) ==
    LET comma == FindSeq(t, <<",">>, 1)
        start == ParseU32(IF comma = 0 THEN t ELSE SubSeq(t, 1, comma - 1))
        count == IF comma = 0 THEN Some(1) ELSE ParseU32(Drop(t, comma))
    IN IF start = NONE \/ count = NONE THEN NONE
       ELSE Some([start |-> start[1], count |-> count[1]])

\* parse_chunk_header
ParseChunkHeader(line) ==
    IF ~StartsWith(line, <<AtAt, Space>>) THEN NONE
    ELSE LET rest == Drop(line, 2)
             end_idx == FindSeq(rest, <<Space, AtAt>>, 1)
         IN IF end_idx = 0 THEN NONE
            ELSE LET ranges == SubSeq(rest, 1, end_idx - 1)
                     header == Trim(Drop(rest, end_idx + 1))
                     sp1 == FindSeq(ranges, <<Space>>, 1)
                     part1 == IF sp1 = 0 THEN ranges ELSE SubSeq(ranges, 1, sp1 - 1)
                     after1 == IF sp1 = 0 THEN <<>> ELSE Drop(ranges, sp1)
                     sp2 == FindSeq(after1, <<Space>>, 1)
                     part2 == IF sp2 = 0 THEN after1 ELSE SubSeq(after1, 1, sp2 - 1)
                     old_range == IF StartsWith(part1, <<"-">>)
                                  THEN ParseRange(Drop(part1, 1)) ELSE NONE
                     new_range == IF sp1 # 0 /\ StartsWith(part2, <<"+">>)
                                  THEN ParseRange(Drop(part2, 1)) ELSE NONE
                 IN IF old_range = NONE \/ new_range = NONE THEN NONE
                    ELSE Some([old_range |-> old_range[1], new_range |-> new_range[1],
                               header |-> header])

\* parse_diff_header
ParseDiffHeader(line) ==
    IF ~StartsWith(line, <<DiffGit, Space>>) THEN Unknown
    ELSE LET rest == Drop(line, 2)
             b_idx == FindSeq(rest, <<Space, "b/">>, 1)
         IN IF b_idx = 0 THEN Unknown ELSE Drop(rest, b_idx + 1)

\* ChunkBuilder::add_line, were an added line to carry the old number too
ChunkAddLineBothNumbers(cb, kind, content) ==
    [cb EXCEPT !.lines = Append(@, [kind |-> kind,
                                    old_line_num |-> Some(cb.current_old_line),
                                    new_line_num |-> IF kind = "Remove" THEN NONE
                                                     ELSE Some(cb.current_new_line),
                                    content |-> content]),
               !.current_old_line = IF kind = "Add" THEN @ ELSE @ + 1,
               !.current_new_line = IF kind = "Remove" THEN @ ELSE @ + 1]

\* ChunkBuilder::add_line
ChunkAddLine(cb, kind, content) ==
    [cb EXCEPT !.lines = Append(@, [kind |-> kind,
                                    old_line_num |-> IF kind = "Add" THEN NONE
                                                     ELSE Some(cb.current_old_line),
                                    new_line_num |-> IF kind = "Remove" THEN NONE
                                                     ELSE Some(cb.current_new_line),
                                    content |-> content]),
               !.current_old_line = IF kind = "Add" THEN @ ELSE @ + 1,
               !.current_new_line = IF kind = "Remove" THEN @ ELSE @ + 1]

\* ChunkBuilder::build
ChunkBuild(cb) ==
    [id |-> cb.id, old_range |-> cb.old_range, new_range |-> cb.new_range,
     header |-> cb.header, lines |-> cb.lines]

\* FileDiffBuilder::new
NewFileDiffBuilder(path) ==
    [path |-> path, status |-> "Modified", chunks |-> <<>>, current_chunk |-> NONE]

\* "finish the chunk if any": current_chunk.take() pushed onto chunks
FinishChunk(b) ==
    IF b.current_chunk = NONE THEN b.chunks
    ELSE Append(b.chunks, ChunkBuild(b.current_chunk[1]))

\* FileDiffBuilder::start_chunk with both counters set from the new range
StartChunkFromNewRange(b, id, old_range, new_range, header) ==
    [b EXCEPT !.chunks = FinishChunk(b),
              !.current_chunk = Some([id |-> id, old_range |-> old_range,
                                      new_range |-> new_range, header |-> header,
                                      lines |-> <<>>,
                                      current_old_line |-> new_range.start,
                                      current_new_line |-> new_range.start])]

\* FileDiffBuilder::start_chunk
StartChunk(b, id, old_range, new_range, header) ==
    [b EXCEPT !.chunks = FinishChunk(b),
              !.current_chunk = Some([id |-> id, old_range |-> old_range,
                                      new_range |-> new_range, header |-> header,
                                      lines |-> <<>>,
                                      current_old_line |-> old_range.start,
                                      current_new_line |-> new_range.start])]

\* FileDiffBuilder::add_line
FileAddLine(b, kind, content) ==
    IF b.current_chunk = NONE THEN b
    ELSE [b EXCEPT !.current_chunk = Some(ChunkAddLine(b.current_chunk[1], kind, content))]

\* FileDiffBuilder::build without the chunk in progress
FileBuildNoFinish(b) ==
    [path |-> b.path, status |-> b.status, chunks |-> b.chunks]

\* FileDiffBuilder::build
FileBuild(b) ==
    [path |-> b.path, status |-> b.status, chunks |-> FinishChunk(b)]

OldNull == <<"-", "-", "-", Space, DevNull>>
NewNull == <<"+", "+", "+", Space, DevNull>>

\* the locals of parse_unified_diff before the first line
ParseStart ==
    [files |-> <<>>, errors |-> <<>>, chunk_id_counter |-> 0, current_file |-> NONE]

\* the "@@" arm, were a header that does not parse to end the parse
ChunkHeaderArmAborting(st, line) ==
    LET b == st.current_file[1]
        h == ParseChunkHeader(line)
    IN IF h # NONE
       THEN [st EXCEPT !.current_file = Some(StartChunk(b, st.chunk_id_counter, h[1].old_range,
                                                         h[1].new_range, h[1].header)),
                       !.chunk_id_counter = @ + 1]
       ELSE [st EXCEPT !.files = <<>>,
                       !.current_file = NONE,
                       !.errors = Append(@, [file_path |-> b.path, message |-> line,
                                             line |-> NONE])]

\* the "@@" arm of the loop
ChunkHeaderArm(st, line) ==
    LET b == st.current_file[1]
        h == ParseChunkHeader(line)
    IN IF h # NONE
       THEN [st EXCEPT !.current_file = Some(StartChunk(b, st.chunk_id_counter, h[1].old_range,
                                                         h[1].new_range, h[1].header)),
                       !.chunk_id_counter = @ + 1]
       ELSE [st EXCEPT !.errors = Append(@, [file_path |-> b.path, message |-> line,
                                             line |-> NONE])]

\* one turn of the loop over the lines
ParseLine(st, line) ==
    IF StartsWith(line, <<DiffGit>>)
    THEN [st EXCEPT !.files = IF st.current_file = NONE THEN @
                              ELSE Append(@, FileBuild(st.current_file[1])),
                    !.current_file = Some(NewFileDiffBuilder(ParseDiffHeader(line)))]
    ELSE IF st.current_file = NONE THEN st
    ELSE LET b == st.current_file[1] IN
         IF StartsWith(line, <<"-", "-", "-">>)
         THEN IF line = OldNull
              THEN [st EXCEPT !.current_file = Some([b EXCEPT !.status = "Added"])]
              ELSE st
         ELSE IF StartsWith(line, <<"+", "+", "+">>)
         THEN IF line = NewNull
              THEN [st EXCEPT !.current_file = Some([b EXCEPT !.status = "Deleted"])]
              ELSE st
         ELSE IF StartsWith(line, <<AtAt>>) THEN ChunkHeaderArm(st, line)
         ELSE IF StartsWith(line, <<"+">>)
         THEN [st EXCEPT !.current_file = Some(FileAddLine(b, "Add", Drop(line, 1)))]
         ELSE IF StartsWith(line, <<"-">>)
         THEN [st EXCEPT !.current_file = Some(FileAddLine(b, "Remove", Drop(line, 1)))]
         ELSE IF StartsWith(line, <<Space>>) \/ line = <<>>
         THEN [st EXCEPT !.current_file =
                    Some(FileAddLine(b, "Context", IF line = <<>> THEN <<>> ELSE Drop(line, 1)))]
         ELSE st

RECURSIVE ParseLines(_, _)
\* the locals after the first n lines
ParseLines(text, n) ==
    IF n = 0 THEN ParseStart ELSE ParseLine(ParseLines(text, n - 1), text[n])

\* DiffParser::parse_unified_diff: the files and the errors it returns
ParseUnifiedDiff(text) ==
    LET st == ParseLines(text, Len(text))
    IN [files |-> IF st.current_file = NONE THEN st.files
                  ELSE Append(st.files, FileBuild(st.current_file[1])),
        errors |-> st.errors]

\* --- the diff texts given to the parser
MarkerF == <<DiffGit, Space, "a/", "f", Space, "b/", "f">>
MarkerNoPath == <<DiffGit, Space, "f">>
OldPath == <<"-", "-", "-", Space, "a/", "f">>
HunkA == <<AtAt, Space, "-", "1", ",", "2", Space, "+", "1", ",", "3", Space, AtAt, Space, "ctx">>
HunkB == <<AtAt, Space, "-", "7", Space, "+", "9", Space, AtAt>>
HunkMalformed == <<AtAt, Space, "-", "1", Space, AtAt>>
AddX == <<"+", "x">>
RemoveX == <<"-", "x">>
ContextX == <<Space, "x">>
NoNewline == <<"\\", Space, "x">>

SampleLines ==
    { MarkerF, MarkerNoPath, OldNull, NewNull, OldPath, HunkA, HunkB, HunkMalformed,
      AddX, RemoveX, ContextX, NoNewline, <<>> }

NewPath == <<"+", "+", "+", Space, "b/", "f">>
HunkPlain == <<AtAt, Space, "-", "1", ",", "2", Space, "+", "1", ",", "3", Space, AtAt>>
HunkC == <<AtAt, Space, "-", "1", "2", ",", "3", Space, "+", "7", Space, AtAt,
           Space, Space, "ctx", Space>>
AddY == <<"+", "y">>

\* the diff of one modified file with one hunk of four lines
ExampleDiff == << MarkerF, OldPath, NewPath, HunkPlain, ContextX, RemoveX, AddX, AddY >>

\* longer texts given to the parser besides the ones made of SampleLines
FixedTexts == { ExampleDiff, << MarkerF, HunkC, AddX >> }

\* the diff texts of up to MaxLines lines, and the fixed ones
DiffTexts == UNION { [1..n -> SampleLines] : n \in 0..MaxLines } \cup FixedTexts

ParseInit ==
    /\ parse \in [text : DiffTexts, called : {FALSE},
                  files : {<<>>}, errors : {<<>>}]
    /\ extraction = NoExtraction
    /\ files = <<>>
    /\ backend = "kiro"
    /\ max_retries = 0
    /\ concurrent_requests = 0
    /\ pc = "idle"
    /\ chunks_to_score = <<>>
    /\ in_progress = {}
    /\ all_scores = <<>>
    /\ completed = 0
    /\ total = 0
    /\ updates = <<>>
    /\ displayed = 0
    /\ cancelled = FALSE
    /\ observed = FALSE
    /\ run_state = "idle"
    /\ issued = << >>
    /\ last_call = NoCall
    /\ stats = NoStats
    /\ ai_config = ConfigOf("kiro")
    /\ filtering = NoFiltering
    /\ RestIdle

\* parse_branches, parse_unstaged and parse_staged hand the output of git diff to the parser
CallParseUnifiedDiff ==
    /\ ~parse.called
    /\ \E result \in {ParseUnifiedDiff(parse.text)} :
           parse' = [parse EXCEPT !.called = TRUE,
                                  !.files = result.files,
                                  !.errors = result.errors]
    /\ UNCHANGED << scoring, extraction, filtering, others >>

ParseNext == CallParseUnifiedDiff

ParseSpec == ParseInit /\ [][ParseNext]_vars

\* ------------------------------------------------ filter_chunk (filter.rs)
\* the heuristics of filter_chunk, in the order it applies them
Heuristics == <<"GeneratedFile", "Rename", "WhitespaceOnly", "ImportOnly">>

HeuristicNames == { Heuristics[i] : i \in 1..Len(Heuristics) }

RECURSIVE FirstMatchFrom(_, _, _, _)
\* the first heuristic of order, from position i on, that is enabled and matches
FirstMatchFrom(order, i, matches, enabled) ==
    IF i > Len(order) THEN [is_filtered |-> FALSE, reason |-> None]
    ELSE IF order[i] \in enabled /\ order[i] \in matches
         THEN [is_filtered |-> TRUE, reason |-> order[i]]
    ELSE FirstMatchFrom(order, i + 1, matches, enabled)

\* filter_chunk trying the whitespace-only rule before the others
FilterChunkWhitespaceFirst(matches, enabled) ==
    FirstMatchFrom(<<"WhitespaceOnly", "GeneratedFile", "Rename", "ImportOnly">>, 1,
                   matches, enabled)

\* ChunkFilter::filter_chunk for a chunk that the heuristics in `matches`
\* match, those in `enabled` being switched on (FilterConfig.auto_filter_*)
FilterChunkOrdered(matches, enabled) == FirstMatchFrom(Heuristics, 1, matches, enabled)

\* a scoring run that has not begun and never will: the state the other
\* specifications hold the scoring variables in
ScoringIdle ==
    /\ files = <<>>
    /\ backend = "kiro"
    /\ max_retries = 0
    /\ concurrent_requests = 0
    /\ pc = "idle"
    /\ chunks_to_score = <<>>
    /\ in_progress = {}
    /\ all_scores = <<>>
    /\ completed = 0
    /\ total = 0
    /\ updates = <<>>
    /\ displayed = 0
    /\ cancelled = FALSE
    /\ observed = FALSE
    /\ run_state = "idle"
    /\ issued = << >>
    /\ last_call = NoCall
    /\ stats = NoStats
    /\ ai_config = ConfigOf("kiro")

FilterInit ==
    /\ filtering \in [matches : SUBSET HeuristicNames, enabled : SUBSET HeuristicNames,
                      called : {FALSE}, result : {NoFiltering.result}, queued : {FALSE}]
    /\ extraction = NoExtraction
    /\ parse = NoParse
    /\ RestIdle
    /\ ScoringIdle

\* the first pass of score_all on one chunk: filter_chunk is called and the
\* chunk is queued for AI scoring unless the result is filtered
CallFilterChunk ==
    /\ ~filtering.called
    /\ \E result \in {FilterChunkOrdered(filtering.matches, filtering.enabled)} :
           filtering' = [filtering EXCEPT !.called = TRUE,
                                          !.result = result,
                                          !.queued = ~result.is_filtered]
    /\ UNCHANGED << scoring, extraction, parse, others >>

FilterNext == CallFilterChunk

FilterSpec == FilterInit /\ [][FilterNext]_vars

\* ------------------------------------- provider construction (provider.rs)
ProviderTypes == {"Claude", "Kiro", "OpenAi", "Custom"}

\* the [ai] sections a configuration file can hold, as far as create reads them
AiConfigs == [provider : ProviderTypes, custom_cli_path : {NONE, Some("tool")}]

CreateOk(p) == [ok |-> TRUE, provider |-> p, err |-> None]
CreateErr(kind) == [ok |-> FALSE, provider |-> None, err |-> kind]

\* ClaudeProvider::new: it takes custom_cli_path or "claude" and never fails
ClaudeProviderNew(cfg) == CreateOk("claude")

\* create whose Custom arm does not look at custom_cli_path
CreateCustomUnchecked(cfg) ==
    CASE cfg.provider = "Claude" -> ClaudeProviderNew(cfg)
      [] cfg.provider = "Kiro"   -> CreateErr("AiProvider")
      [] cfg.provider = "OpenAi" -> CreateErr("AiProvider")
      [] cfg.provider = "Custom" -> CreateErr("AiProvider")

\* AiProviderFactory::create
Create(cfg) ==
    CASE cfg.provider = "Claude" -> ClaudeProviderNew(cfg)
      [] cfg.provider = "Kiro"   -> CreateErr("AiProvider")
      [] cfg.provider = "OpenAi" -> CreateErr("AiProvider")
      [] cfg.provider = "Custom" ->
            IF cfg.custom_cli_path = NONE THEN CreateErr("Config")
            ELSE CreateErr("AiProvider")

\* run_interactive with AI scoring on, before the provider is made: the
\* Ctrl+C handler is spawned, nothing is scored yet
StartupInit ==
    /\ \E shape \in Shapes :
         \E heur \in [0..(SumSeq(shape) - 1) -> HeurResults] :
            files = MakeFiles(shape, heur)
    /\ ai_config \in AiConfigs
    /\ backend = None
    /\ max_retries \in 0..MaxRetries
    /\ concurrent_requests \in 0..MaxConcurrent
    /\ pc = "create"
    /\ chunks_to_score = <<>>
    /\ in_progress = {}
    /\ all_scores = <<>>
    /\ completed = 0
    /\ total = 0
    /\ updates = <<>>
    /\ displayed = 0
    /\ cancelled = FALSE
    /\ observed = FALSE
    /\ run_state = "starting"
    /\ issued = [i \in ChunkIds(files) |-> 0]
    /\ last_call = NoCall
    /\ extraction = NoExtraction
    /\ parse = NoParse
    /\ stats = NoStats
    /\ filtering = NoFiltering
    /\ RestIdle

\* let provider = AiProviderFactory::create(&config.ai)?; an Err leaves
\* run_interactive at once, an Ok goes on to the orchestrator and score_all
CreateProvider ==
    /\ pc = "create"
    /\ \E created \in {Create(ai_config)} :
          IF created.ok
          THEN /\ backend' = created.provider
               /\ pc' = "start"
               /\ run_state' = "scoring"
          ELSE /\ pc' = "returned"
               /\ run_state' = created.err
               /\ UNCHANGED backend
    /\ UNCHANGED << files, max_retries, concurrent_requests, ai_config, elsewhere,
                    chunks_to_score, in_progress, all_scores, completed, total, updates,
                    displayed, cancelled, observed, issued, last_call, stats >>

StartupNext ==
    \/ CreateProvider
    \/ Next

StartupSpec == StartupInit /\ [][StartupNext]_vars

\* ---------------------------- the events of a tool output (claude.rs)
\* what a structured_output field can hold: an object that deserializes
\* into the expected shape, with its score, or one that does not
Payloads == { [shape_ok |-> TRUE, score |-> sc] : sc \in {2, 3} }
               \cup { [shape_ok |-> FALSE, score |-> 0] }

\* an event: its "type" (None when it has none) and its structured_output
Events == [type : {"result", "assistant", None},
           structured_output : {NONE} \cup { Some(p) : p \in Payloads }]

EventArrays == UNION { [1..n -> Events] : n \in 0..MaxEvents }

\* events.iter().find(..) without rev(): the first "result" event
FindFirstResultFrom(events, i) ==
    LET RECURSIVE Walk(_)
        Walk(j) == IF j > Len(events) THEN 0
                   ELSE IF events[j].type = "result" THEN j ELSE Walk(j + 1)
    IN Walk(1)

RECURSIVE FindLastResultFrom(_, _)
\* events.iter().rev().find(|e| type == "result"): the position found
\* walking back from i, or 0
FindLastResultFrom(events, i) ==
    IF i = 0 THEN 0
    ELSE IF events[i].type = "result" THEN i
    ELSE FindLastResultFrom(events, i - 1)

ReplyErr(via) == [ok |-> FALSE, score |-> 0, via |-> via]

\* execute_with_schema from the parsed array to its return value
ReadEvents(events) ==
    LET r == FindLastResultFrom(events, Len(events)) IN
    IF r = 0 THEN ReplyErr("no_result")
    ELSE IF events[r].structured_output = NONE THEN ReplyErr("no_structured")
    ELSE IF ~events[r].structured_output[1].shape_ok THEN ReplyErr("wrong_shape")
    ELSE [ok |-> TRUE, score |-> events[r].structured_output[1].score, via |-> "valid"]

ReplyInit ==
    /\ reply \in [events : EventArrays, called : {FALSE}, result : {NoReply.result}]
    /\ name_status = NoNameStatus
    /\ app = NoApp
    /\ session = NoSession
    /\ extraction = NoExtraction
    /\ parse = NoParse
    /\ filtering = NoFiltering
    /\ ScoringIdle

\* the tool has exited with success and its stdout has parsed as an array
CallReadEvents ==
    /\ ~reply.called
    /\ reply' = [reply EXCEPT !.called = TRUE, !.result = ReadEvents(reply.events)]
    /\ UNCHANGED << scoring, extraction, parse, filtering, name_status, app, session >>

ReplyNext == CallReadEvents

ReplySpec == ReplyInit /\ [][ReplyNext]_vars

\* ------------------------------- the name-status list of git (git.rs)
\* A line is the sequence of its tab-separated columns, a column a sequence
\* of characters; ".py" and ".rs" stand for the extension of a path.
OldFile == <<"o", ".py">>
NewFile == <<"n", ".rs">>

Columns == { <<"R", "9", "7">>, <<"R">>, <<"M">>, <<"A">>, OldFile, NewFile }

NameStatusLines == UNION { [1..n -> Columns] : n \in 1..MaxColumns }

\* Language::from_path
LanguageFromPath(path) ==
    IF path = <<>> THEN "Unknown"
    ELSE CASE path[Len(path)] = ".py" -> "Python"
           [] path[Len(path)] = ".rs" -> "Rust"
           [] OTHER -> "Unknown"

\* status_str[1..].parse::<u8>().unwrap_or(100)
Similarity(status_str) ==
    LET n == ParseU32(Drop(status_str, 1))
    IN IF n # NONE /\ n[1] <= 255 THEN n[1] ELSE 100

\* the status of a line that is not a rename
PlainStatus(c) ==
    CASE c = "A" -> "Added"
      [] c = "D" -> "Deleted"
      [] c = "M" -> "Modified"
      [] c = "C" -> "Copied"
      [] OTHER -> "Modified"

\* parts.next() after n columns were taken
NextPart(line, n) == IF n < Len(line) THEN Some(line[n + 1]) ELSE NONE

\* parse_name_status_line
ParseNameStatusLine(line) ==
    IF Len(line) < 2 THEN NONE
    ELSE LET status_str == line[1]
             path_str == line[2]
         IN IF StartsWith(status_str, <<"R">>)
            THEN IF NextPart(line, 2) = NONE THEN NONE
                 ELSE LET fourth == NextPart(line, 3)
                          final_path == IF fourth # NONE THEN fourth[1] ELSE path_str
                      IN Some([path |-> final_path, old_path |-> Some(path_str),
                               status |-> "Renamed",
                               similarity_percent |-> Similarity(status_str),
                               language |-> LanguageFromPath(final_path)])
            ELSE IF status_str = <<>> THEN NONE
            ELSE Some([path |-> path_str, old_path |-> NONE,
                       status |-> PlainStatus(status_str[1]), similarity_percent |-> 0,
                       language |-> LanguageFromPath(path_str)])

NameStatusInit ==
    /\ name_status \in [line : NameStatusLines, called : {FALSE}, result : {NONE}]
    /\ reply = NoReply
    /\ app = NoApp
    /\ session = NoSession
    /\ extraction = NoExtraction
    /\ parse = NoParse
    /\ filtering = NoFiltering
    /\ ScoringIdle

\* get_changed_files maps a line of the list
CallParseNameStatusLine ==
    /\ ~name_status.called
    /\ name_status' = [name_status EXCEPT !.called = TRUE,
                                          !.result = ParseNameStatusLine(name_status.line)]
    /\ UNCHANGED << scoring, extraction, parse, filtering, reply, app, session >>

NameStatusNext == CallParseNameStatusLine

NameStatusSpec == NameStatusInit /\ [][NameStatusNext]_vars

\* ------------------------------------ the terminal interface (tui/app.rs)
\* a key event: its code and whether Control is held
KeyCodes == {"q", "c", "?", "y", "Enter", "Esc", "Tab", "1", "2", "3", "s", "o", "t"}

Keys == [code : KeyCodes, ctrl : BOOLEAN]

\* Action::from_key
FromKey(key) ==
    CASE key.code = "q"     -> IF key.ctrl THEN "ForceQuit" ELSE "Quit"
      [] key.code = "c"     -> IF key.ctrl THEN "ForceQuit" ELSE "None"
      [] key.code = "?"     -> "Help"
      [] key.code = "Enter" -> "Select"
      [] key.code = "Esc"   -> "Back"
      [] key.code = "Tab"   -> "Tab"
      [] key.code = "s"     -> "Stats"
      [] key.code = "t"     -> "ToggleFilter"
      [] key.code = "o"     -> "ToggleSortMode"
      [] key.code = "y"     -> "ConfirmYes"
      [] key.code = "1"     -> "Summary"
      [] key.code = "2"     -> "FocusTree"
      [] key.code = "3"     -> "FocusStream"

\* View::Review as the handlers make it, with the focus given
EnterReview(a, focus) ==
    [a EXCEPT !.view = "Review", !.tree_focused = focus, !.sort_mode = "ByScore"]

\* any view without the fields of View::Review
EnterView(a, view) ==
    [a EXCEPT !.view = view, !.tree_focused = FALSE, !.sort_mode = "ByScore"]

\* App::handle_back
HandleBack(a) ==
    IF a.view \in {"Help", "Stats", "Review"} THEN EnterView(a, "Summary")
    ELSE EnterView(a, "QuitConfirm")

\* App::handle_select; in the Review view with the tree focused it moves
\* the focus to the stream if a highlight is selected (jump) and else
\* expands or collapses a file
HandleSelect(a, jump) ==
    CASE a.view = "Summary" -> EnterReview(a, FALSE)
      [] a.view = "Review"  -> IF a.tree_focused /\ jump THEN [a EXCEPT !.tree_focused = FALSE]
                               ELSE a
      [] a.view = "Help"    -> EnterView(a, "Summary")
      [] OTHER              -> a

\* handle_action, the quit-confirmation dialog included: what it makes of
\* the App
HandleAction(a, action, jump) ==
    IF a.view = "QuitConfirm"
    THEN IF action \in {"Quit", "Select", "ConfirmYes"}
         THEN [a EXCEPT !.should_quit = TRUE]
         ELSE EnterView(a, "Summary")
    ELSE CASE action = "Quit" ->
                 IF a.view = "Summary" THEN EnterView(a, "QuitConfirm")
                 ELSE EnterView(a, "Summary")
           [] action = "ForceQuit"      -> [a EXCEPT !.should_quit = TRUE]
           [] action = "Help"           -> EnterView(a, "Help")
           [] action = "Summary"        -> EnterView(a, "Summary")
           [] action = "Stats"          -> EnterView(a, "Stats")
           [] action = "Back"           -> HandleBack(a)
           [] action = "Select"         -> HandleSelect(a, jump)
           [] action = "Tab"            ->
                 IF a.view = "Review" THEN [a EXCEPT !.tree_focused = ~@] ELSE a
           [] action = "FocusTree"      ->
                 IF a.view = "Review" THEN [a EXCEPT !.tree_focused = TRUE]
                 ELSE EnterReview(a, TRUE)
           [] action = "FocusStream"    ->
                 IF a.view = "Review" THEN [a EXCEPT !.tree_focused = FALSE]
                 ELSE EnterReview(a, FALSE)
           [] action = "ToggleSortMode" ->
                 IF a.view = "Review"
                 THEN [a EXCEPT !.sort_mode = IF @ = "ByScore" THEN "ByFile" ELSE "ByScore"]
                 ELSE a
           [] OTHER                     -> a

AppInit ==
    /\ app = NewApp
    /\ session = NoSession
    /\ reply = NoReply
    /\ name_status = NoNameStatus
    /\ extraction = NoExtraction
    /\ parse = NoParse
    /\ filtering = NoFiltering
    /\ ScoringIdle

\* one turn of the event loop of run_interactive on a key event: from_key,
\* handle_action, and the loop ends once should_quit is set
KeyPressed ==
    /\ app.view # "none"
    /\ ~app.should_quit
    /\ \E key \in Keys : \E jump \in BOOLEAN :
           app' = [HandleAction(app, FromKey(key), jump) EXCEPT !.last_key = Some(key)]
    /\ UNCHANGED << scoring, extraction, parse, filtering, reply, name_status, session >>

AppNext == KeyPressed

AppSpec == AppInit /\ [][AppNext]_vars

\* ------------------------------------- the review session (session.rs)
\* The diff of a session has the chunks 0 and 1: both in file 1, or one in
\* each of two files. A ScoringResult for it has one ChunkScore per chunk:
\* filtered by a heuristic, scored, scored below the threshold, or a gap.
SessionDiffs == { <<1, 1>>, <<1, 2>> }

ScoreKinds == {"filtered", "scored", "below", "gap"}

SessionScore(id, file, chunk, kind) ==
    [file_index |-> file, chunk_index |-> chunk, chunk_id |-> id,
     response |-> CASE kind = "scored" -> Some([score |-> 3, about |-> id])
                    [] kind = "below"  -> Some([score |-> 2, about |-> id])
                    [] OTHER           -> NONE,
     filter_result |-> CASE kind = "filtered" -> Some([is_filtered |-> TRUE,
                                                       reason |-> "WhitespaceOnly"])
                         [] kind = "below"    -> Some(FilterByScore(2))
                         [] OTHER             -> NONE]

SessionResults(diff) ==
    { << SessionScore(0, diff[1], 1, k0),
         SessionScore(1, diff[2], IF diff[2] = diff[1] THEN 2 ELSE 1, k1) >> :
        k0 \in ScoreKinds, k1 \in ScoreKinds }

UserStatuses == {"Unreviewed", "Viewed", "Approved"}

\* ReviewSession::new: a FileReviewState without chunk states for each file
NewSession(diff) ==
    [files |-> diff[2], diff |-> diff, scoring_result |-> NONE, chunk_states |-> << >>]

RECURSIVE InsertChunkStates(_, _, _)
\* the loop of set_scoring_result over the first n scores
InsertChunkStates(sess, scores, n) ==
    IF n = 0 THEN sess.chunk_states
    ELSE LET before == InsertChunkStates(sess, scores, n - 1)
             sc == scores[n]
             key == << sc.file_index, sc.chunk_id >>
         IN IF sc.file_index \in 1..sess.files
            THEN [p \in DOMAIN before \cup {key} |->
                     IF p = key THEN [score |-> sc.response, user_status |-> "Unreviewed",
                                      notes |-> 0]
                     ELSE before[p]]
            ELSE before

\* ReviewSession::set_scoring_result
SetScoringResultOf(sess, result) ==
    [sess EXCEPT !.chunk_states = InsertChunkStates(sess, result, Len(result)),
                 !.scoring_result = Some(result)]

\* ReviewSession::mark_chunk_status
MarkChunkStatusOf(sess, file_idx, chunk_id, status) ==
    IF << file_idx, chunk_id >> \in DOMAIN sess.chunk_states
    THEN [sess EXCEPT !.chunk_states[<< file_idx, chunk_id >>].user_status = status]
    ELSE sess

\* ReviewSession::add_note
AddNoteOf(sess, file_idx, chunk_id) ==
    IF << file_idx, chunk_id >> \in DOMAIN sess.chunk_states
    THEN [sess EXCEPT !.chunk_states[<< file_idx, chunk_id >>].notes = @ + 1]
    ELSE sess

\* ReviewSession::progress, the chunk counts
Progress(sess) ==
    IF sess.scoring_result = NONE THEN [total_chunks |-> 0, reviewed_chunks |-> 0]
    ELSE [total_chunks |-> ReviewableCount(sess.scoring_result[1]),
          reviewed_chunks |-> Cardinality({ p \in DOMAIN sess.chunk_states :
                                              sess.chunk_states[p].user_status # "Unreviewed" })]

\* ReviewProgress::chunk_percentage, rounded down
ChunkPercentage(pr) ==
    IF pr.total_chunks = 0 THEN 100 ELSE (pr.reviewed_chunks * 100) \div pr.total_chunks

SessionInit ==
    /\ session \in { NewSession(diff) : diff \in SessionDiffs }
    /\ app = NoApp
    /\ reply = NoReply
    /\ name_status = NoNameStatus
    /\ extraction = NoExtraction
    /\ parse = NoParse
    /\ filtering = NoFiltering
    /\ ScoringIdle

SessionUnchanged ==
    UNCHANGED << scoring, extraction, parse, filtering, reply, name_status, app >>

SetScoringResult ==
    /\ session.files > 0
    /\ \E result \in SessionResults(session.diff) :
           session' = SetScoringResultOf(session, result)
    /\ SessionUnchanged

\* the chunk named may be one the session does not know: file 3, chunk 2
MarkChunkStatus ==
    /\ session.files > 0
    /\ \E file_idx \in 1..3 : \E chunk_id \in 0..2 : \E status \in UserStatuses :
           session' = MarkChunkStatusOf(session, file_idx, chunk_id, status)
    /\ SessionUnchanged

AddNote ==
    /\ session.files > 0
    /\ \E file_idx \in 1..3 : \E chunk_id \in 0..2 :
           /\ << file_idx, chunk_id >> \in DOMAIN session.chunk_states =>
                 session.chunk_states[<< file_idx, chunk_id >>].notes < MaxNotes
           /\ session' = AddNoteOf(session, file_idx, chunk_id)
    /\ SessionUnchanged

SessionNext ==
    \/ SetScoringResult
    \/ MarkChunkStatus
    \/ AddNote

SessionSpec == SessionInit /\ [][SessionNext]_vars

\* ------------------------------------------------------------- properties
Last(s) == s[Len(s)]

AllCoords == CoordsFrom(files, 1)

\* the positions of all_scores that are for chunk id i
ScoresFor(i) == { j \in 1..Len(all_scores) : all_scores[j].chunk_id = i }

IsGap(s) == s.response = NONE /\ s.filter_result = NONE

\* the call that returned last returned an error
LastCallFailed == last_call.via \notin {None, "valid"}

\* C1: the provider calls started and not yet completed never number more
\* than the concurrency limit
C1_ConcurrencyBound == Cardinality(in_progress) <= concurrent_requests

\* more chunks need scoring than the limit; a call has completed and the
\* buffer, refilled, is at the limit again
C1_Witness ==
    /\ concurrent_requests >= 1
    /\ total > concurrent_requests
    /\ completed >= 1
    /\ Cardinality(in_progress) = concurrent_requests

\* C2: every ChunkScore names the chunk its indices point at and holds the
\* response of the call made for that chunk, and so does every finding
C2_Identity ==
    /\ \A j \in 1..Len(all_scores) :
         LET s == all_scores[j] IN
         /\ s.file_index \in 1..Len(files)
         /\ s.chunk_index \in 1..Len(files[s.file_index].chunks)
         /\ s.chunk_id = files[s.file_index].chunks[s.chunk_index].id
         /\ s.response # NONE => s.response[1].about = s.chunk_id
    /\ \A j \in 1..Len(updates) :
         updates[j].finding # NONE =>
            LET f == updates[j].finding[1] IN
            /\ f.file_path = files[f.file_index].path
            /\ f.about = files[f.file_index].chunks[f.chunk_index].id
            /\ \E k \in 1..Len(all_scores) :
                 /\ all_scores[k].file_index = f.file_index
                 /\ all_scores[k].chunk_index = f.chunk_index
                 /\ all_scores[k].response = Some([score |-> f.score, about |-> f.about])

\* two calls completed in the reverse of their submission order, with
\* different responses
C2_Witness ==
    \E j, k \in 1..Len(all_scores) :
        /\ j < k
        /\ all_scores[j].response # NONE /\ all_scores[k].response # NONE
        /\ all_scores[j].chunk_id > all_scores[k].chunk_id
        /\ all_scores[j].response[1].score # all_scores[k].response[1].score

\* C3: a failed call leaves a ChunkScore with neither response nor filter
\* result, no result is dropped, and when score_all returns every chunk of
\* the diff has its one ChunkScore
C3_FailureIsGap ==
    /\ LastCallFailed => IsGap(Last(all_scores))
    /\ pc # "start" => Len(all_scores) = Len(HeuristicScores(files)) + completed
    /\ pc = "returned" =>
         /\ run_state \in {"scored", "cancelled"}
         /\ \A j \in 1..Len(AllCoords) :
              Cardinality(ScoresFor(ChunkAt(files, AllCoords[j]).id)) = 1

\* score_all has returned with a gap recorded first and a scored chunk after it
C3_Witness ==
    /\ pc = "returned"
    /\ \E j, k \in 1..Len(all_scores) :
         j < k /\ IsGap(all_scores[j]) /\ all_scores[k].response # NONE

\* C4: no provider call is ever issued for a heuristically filtered chunk,
\* and its ChunkScore holds no response and the heuristic filter result
C4_FilteredNeverSubmitted ==
    \A j \in 1..Len(AllCoords) :
        LET chunk == ChunkAt(files, AllCoords[j]) IN
        FilterChunk(chunk).is_filtered =>
            /\ issued[chunk.id] = 0
            /\ \A t \in in_progress : t.prompt # chunk.id /\ t.chunk_id # chunk.id
            /\ \A k \in ScoresFor(chunk.id) :
                 /\ all_scores[k].response = NONE
                 /\ all_scores[k].filter_result = Some(FilterChunk(chunk))
            /\ pc # "start" => Cardinality(ScoresFor(chunk.id)) = 1

\* a diff with a filtered chunk and a chunk sent to the provider
C4_Witness ==
    /\ pc = "returned"
    /\ \E j \in 1..Len(AllCoords) : FilterChunk(ChunkAt(files, AllCoords[j])).is_filtered
    /\ \E i \in DOMAIN issued : issued[i] = 1

\* C5 as stated: a call whose every invocation failed made no more
\* invocations than max_retries
C5_AtMostMaxRetries == LastCallFailed => last_call.invocations <= max_retries

\* C5: a call makes at most max(1, max_retries) tool invocations, and a call
\* whose every invocation was rejected returns one error, recorded as the
\* one ChunkScore of its chunk, a gap
C5_RetryExhaustion ==
    /\ \A t \in in_progress : t.invocations <= Max(1, max_retries)
    /\ last_call.invocations <= Max(1, max_retries)
    /\ \A i \in DOMAIN issued : issued[i] <= 1
    /\ LastCallFailed =>
         /\ IsGap(Last(all_scores))
         /\ ScoresFor(Last(all_scores).chunk_id) = {Len(all_scores)}

\* the tool failed max_retries = MaxRetries times and the call gave up
C5_Witness ==
    /\ max_retries = MaxRetries
    /\ last_call.via \in {"nonzero_exit", "no_json"}
    /\ last_call.invocations = max_retries

Hung(i) == \E t \in in_progress : t.chunk_id = i /\ t.st = "hung"

Gap(i) == \E j \in ScoresFor(i) : IsGap(all_scores[j])

\* C6: a call whose subprocess never completes is in the end recorded as a gap
C6_HungCallBecomesGap == \A i \in 0..(MaxTotal - 1) : Hung(i) ~> Gap(i)

\* C7: once a callback has seen the cancelled flag set, no further callback
\* is delivered and no further chunk of the batch is completed
C7_NothingAfterCancel ==
    [][observed => (updates' = updates /\ completed' = completed)]_vars

\* C8: the Claude backend returns an error, whatever the failure kind, only
\* after it has invoked the tool max_retries times
C8_ClaudeRetriesEveryKind ==
    (backend = "claude" /\ last_call.via \in
        {"nonzero_exit", "not_array", "no_result", "no_structured", "wrong_shape"})
    => last_call.invocations >= max_retries

\* C9: a failure to spawn the executable is retried up to max_retries
\* invocations before the call fails, and the failure is recorded as a gap
C9_SpawnFailureRetried ==
    last_call.via = "spawn_fail" =>
        /\ last_call.invocations >= max_retries
        /\ IsGap(Last(all_scores))

\* C10: an Ok response never comes from an invocation that exited non-zero
C10_ExitStatusRequired == last_call.via = "valid" => last_call.exit_ok

\* the object is wrapped in colour codes
InColourCodes == extraction.pre \in CsiCodes /\ extraction.post \in CsiCodes

IsObject == extraction.body \in WellFormedObjects

\* C11: whatever decoration surrounds a well-formed object (it may hold an
\* unbalanced quote or a stray closing brace), extract_json returns the object
C11_ExtractsDecoratedObject ==
    (extraction.called /\ IsObject) => extraction.result = Some(extraction.body)

\* C12: for a well-formed object starting the text, extract_json returns the
\* text up to the closing brace that matches the first opening brace, the
\* braces and escaped quotes inside strings notwithstanding
C12_StringBracesNotStructural ==
    (extraction.called /\ IsObject /\ extraction.pre = <<>>)
        => extraction.result = Some(extraction.body)

\* an object with a string holding an escaped quote and then a brace
C12_Witness ==
    /\ extraction.called
    /\ extraction.pre = <<>>
    /\ extraction.body = <<LBrace, Quote, Backslash, Quote, RBrace, Quote, RBrace>>
    /\ extraction.post = <<RBrace>>
    /\ extraction.result = Some(extraction.body)

\* C13: from an object wrapped in colour codes extract_json returns the
\* object without any escape byte, which is what it returns from the bare object
C13_AnsiWrappedObject ==
    (extraction.called /\ IsObject /\ InColourCodes) =>
        /\ extraction.result = Some(extraction.body)
        /\ extraction.result = ExtractJson(extraction.body)
        /\ \A i \in 1..Len(extraction.result[1]) : extraction.result[1][i] # ESC

\* an object holding a string, between two colour codes
C13_Witness ==
    /\ extraction.called
    /\ InColourCodes
    /\ extraction.body = <<LBrace, Quote, "a", Quote, RBrace>>
    /\ extraction.result = Some(extraction.body)

\* --- the diff text as written, against which the parse is judged
IsMarker(line) == StartsWith(line, <<DiffGit>>)
IsHunkLine(line) == StartsWith(line, <<AtAt>>)
IsValidHunk(line) == IsHunkLine(line) /\ ParseChunkHeader(line) # NONE
IsMalformedHunk(line) == IsHunkLine(line) /\ ParseChunkHeader(line) = NONE

\* a hunk body line: "+", "-" or " " and the text, the triple prefixes excepted
IsBodyLine(line) ==
    \/ line = <<>>
    \/ StartsWith(line, <<Space>>)
    \/ StartsWith(line, <<"+">>) /\ ~StartsWith(line, <<"+", "+", "+">>)
    \/ StartsWith(line, <<"-">>) /\ ~StartsWith(line, <<"-", "-", "-">>)

MarkerCount(text) == Cardinality({ i \in 1..Len(text) : IsMarker(text[i]) })

\* the position of the k-th file marker
MarkerAt(text, k) ==
    CHOOSE i \in 1..Len(text) :
        IsMarker(text[i]) /\ Cardinality({ j \in 1..i : IsMarker(text[j]) }) = k

\* the lines between the k-th file marker and the next one
Segment(text, k) ==
    SubSeq(text, MarkerAt(text, k) + 1,
           IF k < MarkerCount(text) THEN MarkerAt(text, k + 1) - 1 ELSE Len(text))

\* the position in seg of its j-th valid hunk header
ValidHunkAt(seg, j) ==
    CHOOSE i \in 1..Len(seg) :
        IsValidHunk(seg[i]) /\ Cardinality({ h \in 1..i : IsValidHunk(seg[h]) }) = j

RECURSIVE BodyLinesFrom(_, _)
\* the body lines of seg from position i up to the next "@@" line
BodyLinesFrom(seg, i) ==
    IF i > Len(seg) \/ IsHunkLine(seg[i]) THEN 0
    ELSE (IF IsBodyLine(seg[i]) THEN 1 ELSE 0) + BodyLinesFrom(seg, i + 1)

RECURSIVE HeaderSection(_)
\* the lines of a file before its first hunk
HeaderSection(seg) ==
    IF seg = <<>> \/ IsValidHunk(seg[1]) THEN <<>>
    ELSE <<seg[1]>> \o HeaderSection(Tail(seg))

InSeq(x, seq) == \E i \in 1..Len(seq) : seq[i] = x

\* every (file, chunk) position of the result
ChunkPositions ==
    { kj \in (1..Len(parse.files)) \X (1..MaxLines) : kj[2] <= Len(parse.files[kj[1]].chunks) }

ChunkOf(kj) == parse.files[kj[1]].chunks[kj[2]]

\* DiffChunk::additions and DiffChunk::deletions
additions(chunk) == Cardinality({ i \in 1..Len(chunk.lines) : chunk.lines[i].kind = "Add" })
deletions(chunk) == Cardinality({ i \in 1..Len(chunk.lines) : chunk.lines[i].kind = "Remove" })

\* C14: a Context line carries both numbers, an Add line only the new one, a
\* Remove line only the old one
C14_LineNumbersByKind ==
    parse.called =>
        \A kj \in ChunkPositions : \A i \in 1..Len(ChunkOf(kj).lines) :
            LET l == ChunkOf(kj).lines[i] IN
            /\ l.kind = "Context" => l.old_line_num # NONE /\ l.new_line_num # NONE
            /\ l.kind = "Add" => l.old_line_num = NONE /\ l.new_line_num # NONE
            /\ l.kind = "Remove" => l.old_line_num # NONE /\ l.new_line_num = NONE

\* a hunk with a removed and an added line
C14_Witness ==
    /\ parse.called
    /\ parse.text = <<MarkerF, HunkB, RemoveX, AddX>>
    /\ Len(parse.files) = 1
    /\ Len(parse.files[1].chunks) = 1
    /\ Len(parse.files[1].chunks[1].lines) = 2
    /\ parse.files[1].chunks[1].lines[1].kind = "Remove"
    /\ parse.files[1].chunks[1].lines[2].kind = "Add"

\* C15: in every chunk additions + deletions <= number of lines, the old
\* numbers run old_range.start, old_range.start + 1, ... over the lines that
\* carry one, and the new numbers run from new_range.start likewise
C15_CountersPerSide ==
    parse.called =>
        \A kj \in ChunkPositions :
            LET c == ChunkOf(kj) IN
            /\ additions(c) + deletions(c) <= Len(c.lines)
            /\ \A i \in 1..Len(c.lines) :
                 /\ c.lines[i].old_line_num # NONE =>
                      c.lines[i].old_line_num[1] = c.old_range.start
                          + Cardinality({ h \in 1..(i - 1) : c.lines[h].kind # "Add" })
                 /\ c.lines[i].new_line_num # NONE =>
                      c.lines[i].new_line_num[1] = c.new_range.start
                          + Cardinality({ h \in 1..(i - 1) : c.lines[h].kind # "Remove" })

\* an added line and then a context line, in a hunk whose sides start apart
C15_Witness ==
    /\ parse.called
    /\ parse.text = <<MarkerF, HunkB, AddX, ContextX>>
    /\ Len(parse.files) = 1
    /\ Len(parse.files[1].chunks) = 1
    /\ Len(parse.files[1].chunks[1].lines) = 2
    /\ parse.files[1].chunks[1].lines[2].old_line_num = Some(7)
    /\ parse.files[1].chunks[1].lines[2].new_line_num = Some(10)

\* C16: there is one file per file marker, in the order of the markers, each
\* with the hunks whose valid headers follow its marker, in their order; the
\* chunk identifiers increase strictly over the whole result
C16_FilesAndHunksInOrder ==
    parse.called =>
        /\ Len(parse.files) = MarkerCount(parse.text)
        /\ \A k \in 1..Len(parse.files) :
             LET hs == SelectSeq(Segment(parse.text, k), IsValidHunk)
                 f == parse.files[k]
             IN /\ f.path = ParseDiffHeader(parse.text[MarkerAt(parse.text, k)])
                /\ Len(f.chunks) = Len(hs)
                /\ \A j \in 1..Len(hs) :
                     /\ f.chunks[j].old_range = ParseChunkHeader(hs[j])[1].old_range
                     /\ f.chunks[j].new_range = ParseChunkHeader(hs[j])[1].new_range
                     /\ f.chunks[j].header = ParseChunkHeader(hs[j])[1].header
        /\ \A a \in ChunkPositions : \A b \in ChunkPositions :
             (a[1] < b[1] \/ (a[1] = b[1] /\ a[2] < b[2])) => ChunkOf(a).id < ChunkOf(b).id

\* two files of one hunk each, the second hunk ending the input
C16_Witness ==
    /\ parse.called
    /\ parse.text = <<MarkerF, HunkA, MarkerNoPath, HunkB>>
    /\ Len(parse.files) = 2
    /\ Len(parse.files[1].chunks) = 1
    /\ Len(parse.files[2].chunks) = 1
    /\ parse.files[1].chunks[1].id < parse.files[2].chunks[1].id
    /\ parse.files[2].chunks[1].old_range.start = 7

\* the malformed hunk headers that stand inside a file
MalformedInFiles ==
    { i \in 1..Len(parse.text) :
        /\ IsMalformedHunk(parse.text[i])
        /\ \E m \in 1..(i - 1) : IsMarker(parse.text[m]) }

\* C18: a malformed hunk header makes one ParseError and no chunk, and the
\* body lines after it, up to the next valid header or file marker, go to no
\* chunk: each chunk holds the body lines between its header and the next
\* "@@" line
C18_MalformedHeaderDropsLines ==
    parse.called =>
        /\ Len(parse.errors) = Cardinality(MalformedInFiles)
        /\ \A k \in 1..Len(parse.files) :
             LET seg == Segment(parse.text, k)
                 f == parse.files[k]
             IN /\ Len(f.chunks) = Len(SelectSeq(seg, IsValidHunk))
                /\ \A j \in 1..Len(f.chunks) :
                     Len(f.chunks[j].lines) = BodyLinesFrom(seg, ValidHunkAt(seg, j) + 1)

\* C19: a malformed hunk header or a file marker without a new-path token
\* does not end the parse: the file of such a marker has the path "unknown",
\* every file marker and every valid hunk header has its file and its chunk,
\* and the errors are returned with them
C19_NeverAborts ==
    parse.called =>
        /\ Len(parse.files) = MarkerCount(parse.text)
        /\ Len(parse.errors) = Cardinality(MalformedInFiles)
        /\ \A k \in 1..Len(parse.files) :
             /\ FindSeq(parse.text[MarkerAt(parse.text, k)], <<Space, "b/">>, 1) = 0
                    => parse.files[k].path = Unknown
             /\ \A i \in 1..Len(Segment(parse.text, k)) :
                    IsValidHunk(Segment(parse.text, k)[i]) =>
                        \E j \in 1..Len(parse.files[k].chunks) :
                            /\ parse.files[k].chunks[j].old_range
                                 = ParseChunkHeader(Segment(parse.text, k)[i])[1].old_range
                            /\ parse.files[k].chunks[j].new_range
                                 = ParseChunkHeader(Segment(parse.text, k)[i])[1].new_range

\* a marker without a path and a malformed header, then a valid file and hunk
C19_Witness ==
    /\ parse.called
    /\ parse.text = <<MarkerNoPath, HunkMalformed, MarkerF, HunkA>>
    /\ Len(parse.files) = 2
    /\ parse.files[1].path = Unknown
    /\ parse.files[2].path = <<"f">>
    /\ Len(parse.files[2].chunks) = 1
    /\ Len(parse.errors) = 1
    /\ parse.errors[1].file_path = Unknown

\* C20: a file is Added if its old-path marker is "--- /dev/null", Deleted if
\* its new-path marker is "+++ /dev/null", Modified otherwise, and nothing
\* else; the markers of a file are the "---" and "+++" lines before its
\* first hunk
C20_StatusFromPathMarkers ==
    parse.called =>
        \A k \in 1..Len(parse.files) :
            LET head == HeaderSection(Segment(parse.text, k))
                status == parse.files[k].status
            IN /\ status \in {"Added", "Deleted", "Modified"}
               /\ (InSeq(OldNull, head) /\ ~InSeq(NewNull, head)) => status = "Added"
               /\ (InSeq(NewNull, head) /\ ~InSeq(OldNull, head)) => status = "Deleted"
               /\ (~InSeq(OldNull, head) /\ ~InSeq(NewNull, head)) => status = "Modified"

\* ------------------------------------------- the results of a scoring run
\* the entries of all_scores that hold an AI response
Scored == { i \in 1..Len(all_scores) : all_scores[i].response # NONE }

\* the callbacks that carried a finding
WithFinding == { i \in 1..Len(updates) : updates[i].finding # NONE }

\* C21: a chunk with an AI response is marked filtered, with the reason
\* below-threshold, exactly when its score is below the threshold; at the
\* threshold or above its ChunkScore has no filter result and its finding
\* has is_filtered = false
C21_ThresholdBoundary ==
    /\ \A i \in Scored :
         LET s == all_scores[i] IN
         IF s.response[1].score < Threshold
         THEN s.filter_result = Some([is_filtered |-> TRUE, reason |-> "BelowThreshold"])
         ELSE s.filter_result = NONE
    /\ \A i \in WithFinding :
         updates[i].finding[1].is_filtered = (updates[i].finding[1].score < Threshold)

\* a chunk scored exactly at the threshold has been recorded and reported
C21_Witness ==
    /\ \E i \in Scored :
         all_scores[i].response[1].score = Threshold /\ all_scores[i].filter_result = NONE
    /\ \E i \in WithFinding :
         updates[i].finding[1].score = Threshold /\ ~updates[i].finding[1].is_filtered

\* the place of a heuristic in the order the spec gives
Rank(h) ==
    CASE h = "GeneratedFile" -> 1 [] h = "Rename" -> 2
      [] h = "WhitespaceOnly" -> 3 [] h = "ImportOnly" -> 4

\* the heuristics that are enabled and match the chunk
Applicable == filtering.matches \cap filtering.enabled

\* C22: filter_chunk returns the first enabled heuristic that matches, in the
\* order generated-file, rename, whitespace-only, import-only (so generated-
\* file wins over whitespace-only); if none matches the chunk is not
\* filtered and is queued for AI scoring
C22_FilterPrecedence ==
    filtering.called =>
        /\ {"GeneratedFile", "WhitespaceOnly"} \subseteq Applicable
               => filtering.result.reason = "GeneratedFile"
        /\ Applicable # {} =>
               /\ filtering.result.is_filtered
               /\ filtering.result.reason \in Applicable
               /\ \A h \in Applicable : Rank(filtering.result.reason) <= Rank(h)
               /\ ~filtering.queued
        /\ Applicable = {} =>
               /\ ~filtering.result.is_filtered
               /\ filtering.queued

\* a chunk of whitespace-only changes in a generated file, all heuristics on
C22_Witness ==
    /\ filtering.called
    /\ filtering.matches = {"GeneratedFile", "WhitespaceOnly"}
    /\ filtering.enabled = HeuristicNames
    /\ filtering.result = [is_filtered |-> TRUE, reason |-> "GeneratedFile"]

\* the chunks filter_chunk does not filter: those queued for AI scoring
QueuedCoords ==
    { i \in 1..Len(CoordsFrom(files, 1)) : ChunkAt(files, CoordsFrom(files, 1)[i]).heur = None }

\* the entries of all_scores pushed by the loop over the stream
FromLoop ==
    { i \in 1..Len(all_scores) :
        ChunkAt(files, <<all_scores[i].file_index, all_scores[i].chunk_index>>).heur = None }

\* C23: the callback is called once per chunk that comes out of the stream,
\* succeeded or failed, never for a heuristically filtered chunk; the
\* completed counters of the callbacks are 1, 2, ... in the order of the
\* calls, total is the number of queued chunks, and when score_all returns
\* every queued chunk has had its callback, the last one with completed = total
C23_ProgressCallbacks ==
    /\ \A i \in 1..Len(updates) :
         /\ updates[i].completed = i
         /\ updates[i].total = Cardinality(QueuedCoords)
         /\ updates[i].finding # NONE =>
              ChunkAt(files, <<updates[i].finding[1].file_index,
                               updates[i].finding[1].chunk_index>>).heur = None
    /\ Len(updates) = Cardinality(FromLoop)
    /\ Len(updates) = completed
    /\ pc = "returned" =>
         /\ Len(updates) = Cardinality(QueuedCoords)
         /\ updates # <<>> => Last(updates).completed = Last(updates).total

\* two queued chunks, the second completing first, the other one failing
C23_Witness ==
    /\ pc = "returned"
    /\ Len(updates) = 2
    /\ updates[1].finding # NONE
    /\ updates[1].finding[1].about = 1
    /\ updates[2].finding = NONE
    /\ updates[2].completed = 2

\* C24: in the stats score_all returns, total_chunks is the number of chunks
\* of the input and total_lines the sum of their line counts
C24_TotalsCountEveryChunkOnce ==
    pc = "returned" =>
        /\ stats.total_chunks = Len(AllCoords)
        /\ stats.total_lines =
             SumSeq([i \in 1..Len(AllCoords) |-> ChunkAt(files, AllCoords[i]).line_count])

\* two chunks went through both passes: one call failed, the other was
\* scored below the threshold
C24_Witness ==
    /\ pc = "returned"
    /\ Len(all_scores) = 2
    /\ \E i \in 1..2 : IsGap(all_scores[i])
    /\ \E i \in 1..2 : all_scores[i].response # NONE /\ IsFiltered(all_scores[i])
    /\ stats.total_chunks = 2
    /\ stats.total_lines = 3

\* C25: in the result score_all returns, filtered_chunks is the number of
\* ChunkScore entries whose filter result is filtered, no chunk has two
\* such entries, and filtered_chunks <= total_chunks
C25_FilteredChunksRecount ==
    pc = "returned" =>
        LET filtered == { i \in 1..Len(all_scores) :
                            /\ all_scores[i].filter_result # NONE
                            /\ all_scores[i].filter_result[1].is_filtered }
        IN /\ stats.filtered_chunks = Cardinality(filtered)
           /\ \A i \in filtered : \A j \in filtered :
                all_scores[i].chunk_id = all_scores[j].chunk_id => i = j
           /\ stats.filtered_chunks <= stats.total_chunks

\* one chunk filtered by a heuristic, the other by its score
C25_Witness ==
    /\ pc = "returned"
    /\ Len(all_scores) = 2
    /\ all_scores[1].response = NONE /\ IsFiltered(all_scores[1])
    /\ all_scores[2].response # NONE /\ IsFiltered(all_scores[2])
    /\ stats.filtered_chunks = 2

\* C26: a ChunkScore never carries both a FilterResult and a response: a
\* chunk filtered by its score carries the FilterResult, a retained one the
\* response, a failed one neither
C26_FilterResultOrResponse ==
    \A i \in 1..Len(all_scores) :
        ~(all_scores[i].filter_result # NONE /\ all_scores[i].response # NONE)

\* C26 as amended: a ChunkScore is of one of four shapes: a heuristic
\* FilterResult and no response; a response together with the below-
\* threshold FilterResult (filtered by its score); a response and no
\* FilterResult (retained); neither (the call failed)
C26_ShapesOfChunkScore ==
    \A i \in 1..Len(all_scores) :
        LET s == all_scores[i] IN
        \/ /\ s.response = NONE
           /\ IsFiltered(s)
           /\ s.filter_result[1].reason # "BelowThreshold"
        \/ /\ s.response # NONE
           /\ s.filter_result = Some([is_filtered |-> TRUE, reason |-> "BelowThreshold"])
        \/ /\ s.response # NONE
           /\ s.filter_result = NONE
        \/ IsGap(s)

\* a run has returned a chunk filtered by its score, holding its response too,
\* beside a heuristically filtered one
C26_Witness ==
    /\ pc = "returned"
    /\ Len(all_scores) = 2
    /\ all_scores[1].response = NONE /\ all_scores[1].filter_result # NONE
    /\ all_scores[2].response # NONE /\ all_scores[2].filter_result # NONE
    /\ all_scores[2].filter_result[1].reason = "BelowThreshold"

\* the three classes of a ChunkScore
Reviewable(s) == s.response # NONE /\ ~IsFiltered(s)

\* C29: every ChunkScore of the result is in exactly one of the classes
\* reviewable, filtered and gap, and a gap is counted neither as filtered
\* (filtered_chunks, is_filtered) nor as reviewable (reviewable_count,
\* reviewable_chunks)
C29_GapNeitherFilteredNorReviewable ==
    pc = "returned" =>
        /\ \A i \in 1..Len(all_scores) :
             LET s == all_scores[i] IN
             /\ Reviewable(s) \/ IsFiltered(s) \/ IsGap(s)
             /\ ~(Reviewable(s) /\ IsFiltered(s))
             /\ ~(Reviewable(s) /\ IsGap(s))
             /\ ~(IsFiltered(s) /\ IsGap(s))
        /\ stats.filtered_chunks
             = Cardinality({ i \in 1..Len(all_scores) : IsFiltered(all_scores[i]) })
        /\ ReviewableCount(all_scores)
             = Cardinality({ i \in 1..Len(all_scores) : Reviewable(all_scores[i]) })
        /\ \A i \in 1..Len(ReviewableChunks(all_scores)) :
             ~IsGap(ReviewableChunks(all_scores)[i])

\* C27: every response a backend returns as Ok, and so every response in a
\* ChunkScore and every score reported to the callback, is within
\* [0.0, 1.0]; an output with a score outside is rejected
C27_ScoreWithinRange ==
    /\ \A i \in Scored :
         /\ all_scores[i].response[1].score >= ScoreMin
         /\ all_scores[i].response[1].score <= ScoreMax
    /\ \A i \in WithFinding :
         /\ updates[i].finding[1].score >= ScoreMin
         /\ updates[i].finding[1].score <= ScoreMax

\* the call that returned last gave up after failures of the kind its
\* backend retries: a nonzero exit (Claude), an output without a usable
\* JSON object (Kiro)
LastCallExhausted ==
    \/ backend = "claude" /\ last_call.via = "nonzero_exit"
    \/ backend = "kiro" /\ last_call.via \in {"no_json", "wrong_shape"}

\* C30: in both backends the wait after the k-th failed invocation is k
\* times the base delay and is followed by another invocation (none follows
\* the last failure), and a call whose invocations all fail in a retryable
\* way has made exactly max_retries of them, for max_retries >= 1
C30_RetrySchedule ==
    /\ \A t \in in_progress :
         t.st = "sleeping" =>
            /\ t.delay_ms = t.invocations * BaseDelayMs
            /\ t.invocations < max_retries
    /\ (LastCallExhausted /\ max_retries >= 1) => last_call.invocations = max_retries

\* a call is in its second wait, of twice the base delay
C30_Witness ==
    \E t \in in_progress :
        t.st = "sleeping" /\ t.invocations = 2 /\ t.delay_ms = 2 * BaseDelayMs

\* C28: a run configured with the Custom provider and no custom_cli_path ends
\* at provider construction with a Config error; no chunk of it is filtered
\* or scored, no provider call is issued and no progress callback is invoked
C28_ConfigErrorIsFatalAtConstruction ==
    (ai_config.provider = "Custom" /\ ai_config.custom_cli_path = NONE /\ pc # "create") =>
        /\ pc = "returned"
        /\ run_state = "Config"
        /\ backend = None
        /\ all_scores = <<>>
        /\ stats = NoStats
        /\ in_progress = {}
        /\ \A i \in DOMAIN issued : issued[i] = 0
        /\ updates = <<>>
        /\ displayed = 0

\* such a run has ended, with chunks in the diff that were never touched
C28_Witness ==
    /\ ai_config.provider = "Custom"
    /\ ai_config.custom_cli_path = NONE
    /\ pc = "returned"
    /\ run_state = "Config"
    /\ ChunkIds(files) # {}
    /\ \E i \in DOMAIN issued : issued[i] = 0

\* (file index, chunk index) of p comes before that of q in the diff
DiffOrderBefore(p, q) ==
    \/ p.file_index < q.file_index
    \/ p.file_index = q.file_index /\ p.chunk_index < q.chunk_index

\* the number of chunks the heuristics filter
HeuristicCount ==
    Cardinality({ j \in 1..Len(AllCoords) : FilterChunk(ChunkAt(files, AllCoords[j])).is_filtered })

\* the futures that leave the buffer in a step
Finished == { t \in in_progress : \A u \in in_progress' : u.chunk_id # t.chunk_id }

\* C31: in scores the heuristically filtered chunks come first, in diff
\* order, and after them the chunks sent to the provider, each appended when
\* its call completes, so in completion order; with a limit of 1 that is the
\* submission order
C31_ScoresOrder ==
    /\ [](pc # "start" =>
            /\ \A j \in 1..Len(all_scores) :
                 (j <= HeuristicCount) <=>
                    FilterChunk(files[all_scores[j].file_index]
                                    .chunks[all_scores[j].chunk_index]).is_filtered
            /\ \A j, k \in 1..Len(all_scores) :
                 (j < k /\ k <= HeuristicCount) => DiffOrderBefore(all_scores[j], all_scores[k])
            /\ \A j, k \in 1..Len(all_scores) :
                 (concurrent_requests = 1 /\ HeuristicCount < j /\ j < k) =>
                    DiffOrderBefore(all_scores[j], all_scores[k]))
    /\ [][completed' # completed =>
            /\ all_scores' = Append(all_scores, Last(all_scores'))
            /\ \E t \in Finished :
                 /\ Finished = {t}
                 /\ t.st = "running"
                 /\ Last(all_scores').file_index = t.file_idx
                 /\ Last(all_scores').chunk_index = t.chunk_idx]_vars

\* score_all has returned; the call for the second chunk completed before
\* the call for the first, both having been in flight together
C31_Witness ==
    /\ pc = "returned"
    /\ concurrent_requests = 2
    /\ Len(all_scores) = 2
    /\ ~IsFiltered(all_scores[1])
    /\ DiffOrderBefore(all_scores[2], all_scores[1])
    /\ issued[all_scores[1].chunk_id] = 1

\* the hunk headers of the texts that are written as the format asks
WrittenHunks == { HunkA, HunkB, HunkPlain, HunkC }

Range(start, count) == [start |-> start, count |-> count]

\* what a reader of the format takes each of them to say
WrittenAs(h) ==
    CASE h = HunkA     -> [old_range |-> Range(1, 2), new_range |-> Range(1, 3), header |-> <<"ctx">>]
      [] h = HunkB     -> [old_range |-> Range(7, 1), new_range |-> Range(9, 1), header |-> <<>>]
      [] h = HunkPlain -> [old_range |-> Range(1, 2), new_range |-> Range(1, 3), header |-> <<>>]
      [] h = HunkC     -> [old_range |-> Range(12, 3), new_range |-> Range(7, 1), header |-> <<"ctx">>]

\* C32: each hunk header "@@ -a,b +c,d @@ context" of a file opens a chunk
\* with old range (a, b), new range (c, d) and the trimmed context as header,
\* a bare start counting 1; the example diff gives one Modified file with one
\* chunk of its four lines and the ranges (1, 2) and (1, 3)
C32_HunkHeaderRanges ==
    parse.called =>
        /\ \A k \in 1..Len(parse.files) :
             LET hs == SelectSeq(Segment(parse.text, k), LAMBDA l : l \in WrittenHunks)
                 f == parse.files[k]
             IN /\ Len(f.chunks) = Len(hs)
                /\ \A j \in 1..Len(hs) :
                     /\ f.chunks[j].old_range = WrittenAs(hs[j]).old_range
                     /\ f.chunks[j].new_range = WrittenAs(hs[j]).new_range
                     /\ f.chunks[j].header = WrittenAs(hs[j]).header
        /\ parse.text = ExampleDiff =>
             /\ Len(parse.files) = 1
             /\ parse.errors = <<>>
             /\ parse.files[1].status = "Modified"
             /\ Len(parse.files[1].chunks) = 1
             /\ parse.files[1].chunks[1].old_range = Range(1, 2)
             /\ parse.files[1].chunks[1].new_range = Range(1, 3)
             /\ [i \in 1..Len(parse.files[1].chunks[1].lines) |->
                    << parse.files[1].chunks[1].lines[i].kind,
                       parse.files[1].chunks[1].lines[i].content >>]
                  = << <<"Context", <<"x">> >>, <<"Remove", <<"x">> >>,
                       <<"Add", <<"x">> >>, <<"Add", <<"y">> >> >>

\* the example diff has been parsed into a chunk of four lines
C32_Witness ==
    /\ parse.called
    /\ parse.text = ExampleDiff
    /\ Len(parse.files) = 1
    /\ Len(parse.files[1].chunks[1].lines) = 4

\* the positions of the events of type "result"
ResultEvents == { i \in 1..Len(reply.events) : reply.events[i].type = "result" }

LastResultEvent == CHOOSE i \in ResultEvents : \A j \in ResultEvents : j <= i

\* C33: with one or more events of type "result" in the array, what is
\* returned is made of the structured output of the last of them alone,
\* whatever the events before and after it hold
C33_LastResultEventDecides ==
    (reply.called /\ ResultEvents # {}) =>
        LET so == reply.events[LastResultEvent].structured_output IN
        /\ reply.result.ok <=> (so # NONE /\ so[1].shape_ok)
        /\ reply.result.ok => reply.result.score = so[1].score
        /\ so = NONE => reply.result.via = "no_structured"
        /\ (so # NONE /\ ~so[1].shape_ok) => reply.result.via = "wrong_shape"

\* two "result" events with different scores and an event of another type
\* after them: the score returned is the second's
C33_Witness ==
    /\ reply.called
    /\ Len(reply.events) = 3
    /\ reply.events[1].type = "result"
    /\ reply.events[1].structured_output = Some([shape_ok |-> TRUE, score |-> 2])
    /\ reply.events[2].type = "result"
    /\ reply.events[2].structured_output = Some([shape_ok |-> TRUE, score |-> 3])
    /\ reply.events[3].type = "assistant"
    /\ reply.events[3].structured_output # NONE
    /\ reply.result.ok
    /\ reply.result.score = 3

\* the (file_index, chunk_index) pairs of the scores, in their order
ScorePairs == [j \in 1..Len(all_scores) |-> << all_scores[j].file_index, all_scores[j].chunk_index >>]

\* C34: when score_all has returned, scores holds one ChunkScore for every
\* chunk of the input and nothing else: as many scores as chunks, each for a
\* chunk of the input, no (file_index, chunk_index) pair twice
C34_OneScorePerChunk ==
    pc = "returned" =>
        /\ Len(all_scores) = SumSeq([f \in 1..Len(files) |-> Len(files[f].chunks)])
        /\ \A j \in 1..Len(all_scores) :
             /\ ScorePairs[j][1] \in 1..Len(files)
             /\ ScorePairs[j][2] \in 1..Len(files[ScorePairs[j][1]].chunks)
        /\ \A j, k \in 1..Len(all_scores) : j # k => ScorePairs[j] # ScorePairs[k]

\* score_all has returned for a diff of a heuristically filtered chunk and
\* a chunk whose call failed
C34_Witness ==
    /\ pc = "returned"
    /\ Len(all_scores) = 2
    /\ IsFiltered(all_scores[1]) /\ all_scores[1].response = NONE
    /\ IsGap(all_scores[2])
    /\ ScorePairs[2] = <<1, 1>>

\* no future is waiting on a subprocess that never completes
NoCallHangs == \A t \in in_progress : t.st # "hung"

\* C35: if every provider call completes, score_all returns, whatever the
\* value of concurrent_requests, 0 included
C35_ScoreAllReturns == ([]NoCallHangs) => <>(pc = "returned")

\* the provider kinds with a backend in the crate, and the backend of each
Implemented == {"Claude", "Kiro"}

BackendOf(kind) == IF kind = "Claude" THEN "claude" ELSE "kiro"

\* C36: create gives the run a provider for each kind that has a backend,
\* Claude and Kiro, and an error only for the other kinds
C36_FactoryCreatesEveryBackend ==
    pc # "create" =>
        IF ai_config.provider \in Implemented
        THEN backend = BackendOf(ai_config.provider) /\ run_state \notin {"Config", "AiProvider"}
        ELSE backend = None /\ run_state \in {"Config", "AiProvider"}

\* the positions of seg after its first valid hunk header: the hunk bodies
BodyPositions(seg) ==
    { i \in 1..Len(seg) : \E h \in 1..(i - 1) : IsValidHunk(seg[h]) }

\* the lines of kind `kind` in all the chunks of file f
LinesOfKind(f, kind) ==
    SumSeq([j \in 1..Len(f.chunks) |->
               Cardinality({ i \in 1..Len(f.chunks[j].lines) : f.chunks[j].lines[i].kind = kind })])

RECURSIVE StatusAfter(_, _)
\* the status the path markers of a file's header section give, read in order
StatusAfter(head, status) ==
    IF head = <<>> THEN status
    ELSE StatusAfter(Tail(head), IF Head(head) = OldNull THEN "Added"
                                 ELSE IF Head(head) = NewNull THEN "Deleted"
                                 ELSE status)

\* C37: after the first hunk header of a file every line that starts with
\* "-" is a Remove line and every line that starts with "+" an Add line of a
\* chunk, also one that starts with "---" or "+++", and the status of the
\* file is the one it had at its first hunk header
C37_BodyLineNeverAMarker ==
    parse.called =>
        \A k \in 1..Len(parse.files) :
            LET seg == Segment(parse.text, k)
                f == parse.files[k]
            IN /\ LinesOfKind(f, "Remove")
                    = Cardinality({ i \in BodyPositions(seg) : StartsWith(seg[i], <<"-">>) })
               /\ LinesOfKind(f, "Add")
                    = Cardinality({ i \in BodyPositions(seg) : StartsWith(seg[i], <<"+">>) })
               /\ f.status = StatusAfter(HeaderSection(seg), "Modified")

\* C38: for a rename entry (status R and the similarity, old path, new path)
\* the ChangedFile has the new path, the third column, as path, the second
\* column as old_path, and the language of the new path
C38_RenameTakesNewPath ==
    (name_status.called /\ Len(name_status.line) = 3
        /\ StartsWith(name_status.line[1], <<"R">>)) =>
        /\ name_status.result # NONE
        /\ name_status.result[1].path = name_status.line[3]
        /\ name_status.result[1].old_path = Some(name_status.line[2])
        /\ name_status.result[1].language = LanguageFromPath(name_status.line[3])

\* the keys the help names for Force quit
ForceQuitKeys == { [code |-> "q", ctrl |-> TRUE], [code |-> "c", ctrl |-> TRUE] }

\* C39: Ctrl+q or Ctrl+c sets should_quit in whatever view it is pressed,
\* the quit-confirmation dialog included, and should_quit once set stays set
C39_ForceQuitInEveryView ==
    /\ []((app.last_key # NONE /\ app.last_key[1] \in ForceQuitKeys) => app.should_quit)
    /\ [][app.should_quit => app'.should_quit]_vars

\* C40: whatever was set, marked and noted, progress() reports no more
\* reviewed chunks than reviewable ones, and chunk_percentage() no more
\* than 100
C40_ReviewedWithinTotal ==
    /\ Progress(session).reviewed_chunks <= Progress(session).total_chunks
    /\ ChunkPercentage(Progress(session)) <= 100

====
